---- MODULE Spec2Model ----
(***************************************************************************)
(* Model of the Jane-Doe-Project matching and search engine:               *)
(*   src/search/matching.py  MatchingEngine                                *)
(*   src/search/engine.py    SearchEngine                                  *)
(*   src/database/manager.py DatabaseManager                               *)
(*   src/models/person.py    the record and criteria dataclasses           *)
(*                                                                         *)
(* Numbers.  Python floats are modelled by exact rationals:                *)
(*   - a height / weight / age value is held doubled (V2 = 2 * value), so  *)
(*     that the midpoint (min + max) / 2 stays an integer;                 *)
(*   - an attribute score s in [0,1] is the integer s * Scale;             *)
(*   - a confidence is the fraction n / (d * Scale) held as [n, d], where  *)
(*     n is the weighted score sum and d the sum of the weights used, the  *)
(*     weights being counted in units of 0.05;                             *)
(*   - the confidence threshold t is the integer t * Scale.                *)
(* Strings are sequences of one-character strings.  Python's None is the   *)
(* value None (-1) for an Optional[int], the empty sequence for an         *)
(* Optional[str] (None and "" are both falsy and are only ever tested for  *)
(* truth) and "None" for an Optional enum.                                 *)
(***************************************************************************)
EXTENDS Integers, Sequences, FiniteSets, TLC

None == 0 - 1

\* Common denominator of every attribute score the scorers can produce.
Scale == 60 * 100

Max2(a, b) == IF a >= b THEN a ELSE b

Min2(a, b) == IF a <= b THEN a ELSE b

\* Python truthiness of an Optional[int]: None and 0 are both falsy.
Truthy(x) == x # None /\ x # 0

\* Python `a or b` on Optional[int] operands.
PyOr(a, b) == IF Truthy(a) THEN a ELSE b

(***************************************************************************)
(* Strings: str.lower(), str.upper() and the fuzzywuzzy ratios.            *)
(***************************************************************************)
UpperChars == <<"A","B","C","D","E","F","G","H","I","J","K","L","M",
                "N","O","P","Q","R","S","T","U","V","W","X","Y","Z">>

LowerChars == <<"a","b","c","d","e","f","g","h","i","j","k","l","m",
                "n","o","p","q","r","s","t","u","v","w","x","y","z">>

LowerChar(c) ==
    IF \E i \in 1..26 : UpperChars[i] = c
    THEN LowerChars[CHOOSE i \in 1..26 : UpperChars[i] = c]
    ELSE c

UpperChar(c) ==
    IF \E i \in 1..26 : LowerChars[i] = c
    THEN UpperChars[CHOOSE i \in 1..26 : LowerChars[i] = c]
    ELSE c

\* The sequences below are built with \o so that they are held as explicit
\* tuples.
lower(s) == <<>> \o [i \in 1..Len(s) |-> LowerChar(s[i])]

upper(s) == <<>> \o [i \in 1..Len(s) |-> UpperChar(s[i])]

\* The largest element of a non-empty finite set of integers.
MaxOf(S) == CHOOSE x \in S : \A y \in S : y <= x

\* One row of the longest-common-subsequence table: prev is row i-1, indexed
\* 1..Len(b)+1 for the columns 0..Len(b); the result is row i for character ch.
LcsRow(ch, b, prev) ==
    <<>> \o [col \in 1..(Len(b) + 1) |->
        MaxOf({prev[col]} \cup {prev[j] + 1 : j \in {k \in 1..(col - 1) : b[k] = ch}})]

\* The last entry of the last row, from row i - 1 (prev) on.
RECURSIVE LcsRows(_, _, _, _)
LcsRows(a, b, i, prev) ==
    IF i > Len(a) \/ Len(prev) = 0 THEN prev[Len(b) + 1]
    ELSE LcsRows(a, b, i + 1, LcsRow(a[i], b, prev))

\* Length of a longest common subsequence of a and b.
LcsLen(a, b) == LcsRows(a, b, 1, [j \in 1..(Len(b) + 1) |-> 0])

\* The smallest element of a non-empty finite set of integers.
MinOf(S) == CHOOSE x \in S : \A y \in S : x <= y

\* utils.intr(100 * x / y) = int(round(100 * x / y)) for x >= 0, y > 0:
\* Python 3 rounds an exact half to the even neighbour.
Round100(x, y) ==
    IF 2 * ((100 * x) % y) > y THEN ((100 * x) \div y) + 1
    ELSE IF 2 * ((100 * x) % y) < y THEN (100 * x) \div y
    ELSE ((100 * x) \div y) + (((100 * x) \div y) % 2)

\* fuzzywuzzy takes its SequenceMatcher from python-Levenshtein's
\* StringMatcher when that package can be imported and from the standard
\* library's difflib otherwise.
SequenceMatchers == {"StringMatcher", "difflib"}

\* The length of the common run of a from position i and b from position j
\* that stays within a[..ahi] and b[..bhi].
RECURSIVE RunLen(_, _, _, _, _, _)
RunLen(a, b, i, j, ahi, bhi) ==
    IF i > ahi \/ j > bhi THEN 0
    ELSE IF a[i] # b[j] THEN 0
    ELSE 1 + RunLen(a, b, i + 1, j + 1, ahi, bhi)

Match(i, j, size) == [i |-> i, j |-> j, size |-> size]

\* The block of the given size that starts at i in a: the earliest in b.
LongestAtI(a, b, i, ahi, blo, bhi, size) ==
    Match(i, MinOf({y \in blo..bhi : RunLen(a, b, i, y, ahi, bhi) = size}), size)

\* The block of the given (largest) size: the earliest in a.
LongestOfSize(a, b, alo, ahi, blo, bhi, size) ==
    IF size = 0 THEN Match(alo, blo, 0)
    ELSE LongestAtI(a, b,
             MinOf({x \in alo..ahi :
                       \E y \in blo..bhi : RunLen(a, b, x, y, ahi, bhi) = size}),
             ahi, blo, bhi, size)

\* difflib's SequenceMatcher.find_longest_match on a[alo..ahi] and
\* b[blo..bhi] (positions from 1, both ends included; no junk): the longest
\* matching block, of those the one starting earliest in a, of those the one
\* starting earliest in b.
find_longest_match(a, b, alo, ahi, blo, bhi) ==
    LongestOfSize(a, b, alo, ahi, blo, bhi,
        MaxOf({0} \cup {RunLen(a, b, x, y, ahi, bhi) :
                           x \in alo..ahi, y \in blo..bhi}))

\* The blocks found in a[alo..ahi] and b[blo..bhi]: the longest one m, then
\* those to its left and those to its right.
RECURSIVE BlocksIn(_, _, _, _, _, _)
BlocksAround(a, b, alo, ahi, blo, bhi, m) ==
    IF m.size = 0 THEN {}
    ELSE {m} \cup BlocksIn(a, b, alo, m.i - 1, blo, m.j - 1)
             \cup BlocksIn(a, b, m.i + m.size, ahi, m.j + m.size, bhi)

BlocksIn(a, b, alo, ahi, blo, bhi) ==
    IF alo > ahi \/ blo > bhi THEN {}
    ELSE BlocksAround(a, b, alo, ahi, blo, bhi,
                      find_longest_match(a, b, alo, ahi, blo, bhi))

\* difflib's SequenceMatcher.get_matching_blocks, as a set: the blocks and
\* the closing block of size 0.  (Merging adjacent blocks changes neither the
\* characters matched nor the offsets j - i.)
get_matching_blocks(a, b) ==
    BlocksIn(a, b, 1, Len(a), 1, Len(b)) \cup {Match(Len(a) + 1, Len(b) + 1, 0)}

RECURSIVE SumOfSizes(_)
SumOfSizes(blocks) ==
    IF blocks = {} THEN 0
    ELSE (CHOOSE m \in blocks : TRUE).size
             + SumOfSizes(blocks \ {CHOOSE m \in blocks : TRUE})

\* The number of matched characters M in SequenceMatcher(None, a, b).ratio()
\* = 2.0 * M / (|a| + |b|).  StringMatcher returns Levenshtein.ratio, i.e.
\* (|a| + |b| - dist) / (|a| + |b|) with dist the edit distance whose
\* substitutions cost 2, |a| + |b| - 2 * LCS; difflib sums its matching blocks.
Matches(matcher, a, b) ==
    IF matcher = "difflib" THEN SumOfSizes(get_matching_blocks(a, b))
    ELSE LcsLen(a, b)

\* SequenceMatcher(None, a, b).ratio() * 100, rounded; a and b not both empty.
MatcherRatio(matcher, a, b) == Round100(2 * Matches(matcher, a, b), Len(a) + Len(b))

\* fuzz.ratio(a, b) under the given SequenceMatcher: equal strings give 100
\* and an empty string gives 0 before any matching is done.
fuzz_ratio(matcher, a, b) ==
    IF a = b THEN 100
    ELSE IF Len(a) = 0 \/ Len(b) = 0 THEN 0
    ELSE MatcherRatio(matcher, a, b)

\* fuzz.ratio(a, b) as the engine sees it.  On the strings of the engine's
\* inputs below the two SequenceMatchers give the same ratios
\* (MatchersAgreeOnInputs).
ratio(a, b) == fuzz_ratio("StringMatcher", a, b)

\* The best ratio of shorter against the equally long windows of longer.
BestWindow(shorter, longer) ==
    MaxOf({ratio(shorter, SubSeq(longer, k, k + Len(shorter) - 1)) :
              k \in 1..(Len(longer) - Len(shorter) + 1)})

\* The window of longer that fuzz.partial_ratio takes for a matching block:
\* longer[long_start : long_start + len(shorter)], long_start = max(j - i, 0).
BlockWindow(shorter, longer, m) ==
    SubSeq(longer, Max2(m.j - m.i, 0) + 1,
           Min2(Max2(m.j - m.i, 0) + Len(shorter), Len(longer)))

\* fuzz.partial_ratio on difflib: the best ratio of shorter against the
\* windows of longer aligned on the matching blocks of (shorter, longer).
BestBlockWindow(shorter, longer) ==
    MaxOf({MatcherRatio("difflib", shorter, BlockWindow(shorter, longer, m)) :
              m \in get_matching_blocks(shorter, longer)})

\* fuzz.partial_ratio(a, b) under the given SequenceMatcher; the shorter
\* string is a when the lengths are equal.  StringMatcher derives its blocks
\* from the edit operations of the C library; they are taken here to reach the
\* best window.
fuzz_partial_ratio(matcher, a, b) ==
    IF a = b THEN 100
    ELSE IF Len(a) = 0 \/ Len(b) = 0 THEN 0
    ELSE IF matcher = "difflib"
         THEN (IF Len(a) <= Len(b) THEN BestBlockWindow(a, b)
               ELSE BestBlockWindow(b, a))
    ELSE IF Len(a) <= Len(b) THEN BestWindow(a, b) ELSE BestWindow(b, a)

\* fuzz.partial_ratio(a, b) as the engine sees it (see ratio).
partial_ratio(a, b) == fuzz_partial_ratio("StringMatcher", a, b)

(***************************************************************************)
(* src/models/person.py: enumerations.                                     *)
(***************************************************************************)
RaceValue(race) ==
    CASE race = "WHITE" -> <<"W","h","i","t","e">>
      [] race = "BLACK_AFRICAN_AMERICAN" ->
            <<"B","l","a","c","k","/","A","f","r","i","c","a","n"," ",
              "A","m","e","r","i","c","a","n">>
      [] race = "HISPANIC_LATINO" ->
            <<"H","i","s","p","a","n","i","c","/","L","a","t","i","n","o">>
      [] race = "ASIAN" -> <<"A","s","i","a","n">>
      [] race = "NATIVE_AMERICAN" ->
            <<"N","a","t","i","v","e"," ","A","m","e","r","i","c","a","n">>
      [] race = "PACIFIC_ISLANDER" ->
            <<"P","a","c","i","f","i","c"," ","I","s","l","a","n","d","e","r">>
      [] race = "MULTIRACIAL" ->
            <<"M","u","l","t","i","r","a","c","i","a","l">>
      [] OTHER -> <<"U","n","k","n","o","w","n">>

(***************************************************************************)
(* src/search/matching.py: MatchingEngine.                                 *)
(***************************************************************************)
weight_config_Uniform(category) == 2

\* self.weight_config, in units of 0.05.
weight_config(category) ==
    CASE category = "height" -> 4
      [] category = "weight" -> 4
      [] category = "race" -> 3
      [] category = "sex" -> 3
      [] category = "age" -> 3
      [] category = "location" -> 2
      [] category = "distinguishing_marks" -> 1
      [] OTHER -> 2

\* The order in which calculate_match_score inserts categories into scores.
Categories == <<"height", "weight", "race", "sex", "age",
                "distinguishing_marks", "location">>

\* _get_height_value / _get_weight_value / _get_age_value, doubled; None
\* when the Python value is None.
GetValue2(lo, hi) ==
    IF Truthy(lo) /\ Truthy(hi) THEN lo + hi
    ELSE LET v == PyOr(lo, hi) IN IF v = None THEN None ELSE 2 * v

MatchRange_Floor(rec2, qmin, qmax, ceiling, tolerance) ==
    IF rec2 = None \/ rec2 = 0 THEN 0
    ELSE LET criteria_min == 2 * PyOr(qmin, 0)
             criteria_max == 2 * PyOr(qmax, ceiling)
             distance == IF rec2 < criteria_min THEN criteria_min - rec2
                         ELSE rec2 - criteria_max
         IN IF criteria_min <= rec2 /\ rec2 <= criteria_max THEN Scale
            ELSE IF distance <= 2 * tolerance
                 THEN Max2(0, Scale - (Scale * distance) \div (2 * tolerance))
                 ELSE Scale \div 10

\* The shared body of _match_height_range, _match_weight_range and
\* _match_age_range: rec2 is the doubled record value, ceiling the default
\* of an absent upper bound and tolerance the width of the decay window.
MatchRange(rec2, qmin, qmax, ceiling, tolerance) ==
    IF rec2 = None \/ rec2 = 0 THEN 0
    ELSE LET criteria_min == 2 * PyOr(qmin, 0)
             criteria_max == 2 * PyOr(qmax, ceiling)
             distance == IF rec2 < criteria_min THEN criteria_min - rec2
                         ELSE rec2 - criteria_max
         IN IF criteria_min <= rec2 /\ rec2 <= criteria_max THEN Scale
            ELSE IF distance <= 2 * tolerance
                 THEN Max2(0, Scale - (Scale * distance) \div (2 * tolerance))
                 ELSE 0

HeightCeiling == 100

HeightTolerance == 3

WeightCeiling == 500

WeightTolerance == 20

AgeCeiling == 120

AgeTolerance == 5

_match_height_range(record_pc, criteria_pc) ==
    MatchRange(GetValue2(record_pc.height_min, record_pc.height_max),
               criteria_pc.height_min, criteria_pc.height_max,
               HeightCeiling, HeightTolerance)

_match_weight_range(record_pc, criteria_pc) ==
    MatchRange(GetValue2(record_pc.weight_min, record_pc.weight_max),
               criteria_pc.weight_min, criteria_pc.weight_max,
               WeightCeiling, WeightTolerance)

_match_age_range(record_pc, criteria_pc) ==
    MatchRange(GetValue2(record_pc.age_min, record_pc.age_max),
               criteria_pc.age_min, criteria_pc.age_max,
               AgeCeiling, AgeTolerance)

\* _fuzzy_race_match, in units of 1/100.
_fuzzy_race_match(race1, race2) ==
    ratio(lower(RaceValue(race1)), lower(RaceValue(race2)))

\* sum(xs) for a sequence of integers.
RECURSIVE SumSeq(_)
SumSeq(xs) == IF xs = <<>> THEN 0 ELSE Head(xs) + SumSeq(Tail(xs))

\* max(mark_scores) for one criteria mark.
BestMark(criteria_mark, record_marks) ==
    MaxOf({partial_ratio(lower(criteria_mark), lower(record_marks[k])) :
              k \in 1..Len(record_marks)})

\* sum(best_scores) / len(best_scores), from units of 1/100 to 1/Scale.
MeanOfBest(best_scores) ==
    (SumSeq(best_scores) * (Scale \div 100)) \div Len(best_scores)

\* _match_distinguishing_marks, in units of 1/Scale.
_match_distinguishing_marks(record_marks, criteria_marks) ==
    IF record_marks = <<>> \/ criteria_marks = <<>> THEN 0
    ELSE MeanOfBest([k \in 1..Len(criteria_marks) |->
                        BestMark(criteria_marks[k], record_marks)])

\* A reason string: its fixed text and the score it prints ("{:.2f}", in
\* hundredths), None for the reasons that print no score.
Reason(text, score) == [text |-> text, score |-> score]

\* f"{x:.2f}" of a score held in units of 1/Scale.
Fmt2(s) == (2 * 100 * s + Scale) \div (2 * Scale)

\* The race branch of _match_physical_characteristics, in units of 1/100,
\* for two races that are both present.
RaceScore(criteria_race, record_race) ==
    IF criteria_race = record_race THEN 100
    ELSE _fuzzy_race_match(criteria_race, record_race)

PhysicalResult_UnequalSexCounts(record_pc, criteria_pc, height_score, weight_score, race_score, age_score, marks_score) ==
    LET has_height == (Truthy(criteria_pc.height_min) \/ Truthy(criteria_pc.height_max))
                      /\ height_score > 0
        has_weight == (Truthy(criteria_pc.weight_min) \/ Truthy(criteria_pc.weight_max))
                      /\ weight_score > 0
        both_race == criteria_pc.race # "None" /\ record_pc.race # "None"
        race_exact == both_race /\ criteria_pc.race = record_pc.race
        has_race == both_race /\ (race_exact \/ race_score > 50)
        has_sex == criteria_pc.sex # "None" /\ record_pc.sex # "None"
        has_age == (Truthy(criteria_pc.age_min) \/ Truthy(criteria_pc.age_max))
                   /\ age_score > 0
        has_marks == criteria_pc.distinguishing_marks # <<>>
                     /\ record_pc.distinguishing_marks # <<>>
                     /\ marks_score > 0
        keys == (IF has_height THEN {"height"} ELSE {})
                \cup (IF has_weight THEN {"weight"} ELSE {})
                \cup (IF has_race THEN {"race"} ELSE {})
                \cup (IF has_sex THEN {"sex"} ELSE {})
                \cup (IF has_age THEN {"age"} ELSE {})
                \cup (IF has_marks THEN {"distinguishing_marks"} ELSE {})
    IN [scores |-> [c \in keys |->
                      CASE c = "height" -> height_score
                        [] c = "weight" -> weight_score
                        [] c = "race" -> race_score * (Scale \div 100)
                        [] c = "sex" -> Scale
                        [] c = "age" -> age_score
                        [] OTHER -> marks_score],
        reasons |->
            (IF has_height THEN <<Reason("Height match", Fmt2(height_score))>> ELSE <<>>)
            \o (IF has_weight THEN <<Reason("Weight match", Fmt2(weight_score))>> ELSE <<>>)
            \o (IF has_race
                THEN IF race_exact THEN <<Reason("Exact race match", None)>>
                     ELSE <<Reason("Similar race match", race_score)>>
                ELSE <<>>)
            \o (IF has_sex THEN <<Reason("Exact sex match", None)>> ELSE <<>>)
            \o (IF has_age THEN <<Reason("Age match", Fmt2(age_score))>> ELSE <<>>)
            \o (IF has_marks
                THEN <<Reason("Distinguishing marks match", Fmt2(marks_score))>>
                ELSE <<>>)]

PhysicalResult_SilentSex(record_pc, criteria_pc, height_score, weight_score, race_score, age_score, marks_score) ==
    LET has_height == (Truthy(criteria_pc.height_min) \/ Truthy(criteria_pc.height_max))
                      /\ height_score > 0
        has_weight == (Truthy(criteria_pc.weight_min) \/ Truthy(criteria_pc.weight_max))
                      /\ weight_score > 0
        both_race == criteria_pc.race # "None" /\ record_pc.race # "None"
        race_exact == both_race /\ criteria_pc.race = record_pc.race
        has_race == both_race /\ (race_exact \/ race_score > 50)
        has_sex == criteria_pc.sex # "None" /\ record_pc.sex # "None"
                   /\ criteria_pc.sex = record_pc.sex
        has_age == (Truthy(criteria_pc.age_min) \/ Truthy(criteria_pc.age_max))
                   /\ age_score > 0
        has_marks == criteria_pc.distinguishing_marks # <<>>
                     /\ record_pc.distinguishing_marks # <<>>
                     /\ marks_score > 0
        keys == (IF has_height THEN {"height"} ELSE {})
                \cup (IF has_weight THEN {"weight"} ELSE {})
                \cup (IF has_race THEN {"race"} ELSE {})
                \cup (IF has_sex THEN {"sex"} ELSE {})
                \cup (IF has_age THEN {"age"} ELSE {})
                \cup (IF has_marks THEN {"distinguishing_marks"} ELSE {})
    IN [scores |-> [c \in keys |->
                      CASE c = "height" -> height_score
                        [] c = "weight" -> weight_score
                        [] c = "race" -> race_score * (Scale \div 100)
                        [] c = "sex" -> Scale
                        [] c = "age" -> age_score
                        [] OTHER -> marks_score],
        reasons |->
            (IF has_height THEN <<Reason("Height match", Fmt2(height_score))>> ELSE <<>>)
            \o (IF has_weight THEN <<Reason("Weight match", Fmt2(weight_score))>> ELSE <<>>)
            \o (IF has_race
                THEN IF race_exact THEN <<Reason("Exact race match", None)>>
                     ELSE <<Reason("Similar race match", race_score)>>
                ELSE <<>>)
            \o (IF has_age THEN <<Reason("Age match", Fmt2(age_score))>> ELSE <<>>)
            \o (IF has_marks
                THEN <<Reason("Distinguishing marks match", Fmt2(marks_score))>>
                ELSE <<>>)]

\* The scores dict and the reasons _match_physical_characteristics builds from
\* what the scorers returned.
PhysicalResult(record_pc, criteria_pc, height_score, weight_score, race_score, age_score, marks_score) ==
    LET has_height == (Truthy(criteria_pc.height_min) \/ Truthy(criteria_pc.height_max))
                      /\ height_score > 0
        has_weight == (Truthy(criteria_pc.weight_min) \/ Truthy(criteria_pc.weight_max))
                      /\ weight_score > 0
        both_race == criteria_pc.race # "None" /\ record_pc.race # "None"
        race_exact == both_race /\ criteria_pc.race = record_pc.race
        has_race == both_race /\ (race_exact \/ race_score > 50)
        has_sex == criteria_pc.sex # "None" /\ record_pc.sex # "None"
                   /\ criteria_pc.sex = record_pc.sex
        has_age == (Truthy(criteria_pc.age_min) \/ Truthy(criteria_pc.age_max))
                   /\ age_score > 0
        has_marks == criteria_pc.distinguishing_marks # <<>>
                     /\ record_pc.distinguishing_marks # <<>>
                     /\ marks_score > 0
        keys == (IF has_height THEN {"height"} ELSE {})
                \cup (IF has_weight THEN {"weight"} ELSE {})
                \cup (IF has_race THEN {"race"} ELSE {})
                \cup (IF has_sex THEN {"sex"} ELSE {})
                \cup (IF has_age THEN {"age"} ELSE {})
                \cup (IF has_marks THEN {"distinguishing_marks"} ELSE {})
    IN [scores |-> [c \in keys |->
                      CASE c = "height" -> height_score
                        [] c = "weight" -> weight_score
                        [] c = "race" -> race_score * (Scale \div 100)
                        [] c = "sex" -> Scale
                        [] c = "age" -> age_score
                        [] OTHER -> marks_score],
        reasons |->
            (IF has_height THEN <<Reason("Height match", Fmt2(height_score))>> ELSE <<>>)
            \o (IF has_weight THEN <<Reason("Weight match", Fmt2(weight_score))>> ELSE <<>>)
            \o (IF has_race
                THEN IF race_exact THEN <<Reason("Exact race match", None)>>
                     ELSE <<Reason("Similar race match", race_score)>>
                ELSE <<>>)
            \o (IF has_sex THEN <<Reason("Exact sex match", None)>> ELSE <<>>)
            \o (IF has_age THEN <<Reason("Age match", Fmt2(age_score))>> ELSE <<>>)
            \o (IF has_marks
                THEN <<Reason("Distinguishing marks match", Fmt2(marks_score))>>
                ELSE <<>>)]

\* _match_physical_characteristics: the scores dict, as a function from the
\* inserted categories to their scores, and the reasons.
_match_physical_characteristics(record_pc, criteria_pc) ==
    PhysicalResult(record_pc, criteria_pc,
                   _match_height_range(record_pc, criteria_pc),
                   _match_weight_range(record_pc, criteria_pc),
                   RaceScore(criteria_pc.race, record_pc.race),
                   _match_age_range(record_pc, criteria_pc),
                   _match_distinguishing_marks(record_pc.distinguishing_marks,
                                               criteria_pc.distinguishing_marks))

LocationFinalScore_Best(scores) ==
    IF scores = <<>> THEN 0 ELSE MaxOf({scores[i] : i \in 1..Len(scores)})

LocationFinalScore_Sum(scores) == SumSeq(scores)

\* The final_score of _match_location: the average of all location scores.
LocationFinalScore(scores) ==
    IF scores = <<>> THEN 0 ELSE SumSeq(scores) \div Len(scores)

\* The state branch of _match_location, in units of 1/100, for two states
\* that are both present.
StateScore(criteria_state, record_state) ==
    IF upper(criteria_state) = upper(record_state) THEN 100
    ELSE ratio(lower(criteria_state), lower(record_state))

LocationResult_CityUnweighted(record_location, criteria_location, state_score, county_score, city_score) ==
    LET both_state == criteria_location.state # <<>> /\ record_location.state # <<>>
        state_exact == both_state
                       /\ upper(criteria_location.state) = upper(record_location.state)
        has_state == both_state /\ (state_exact \/ state_score > 30)
        has_county == criteria_location.county # <<>> /\ record_location.county # <<>>
                      /\ county_score > 70
        has_city == criteria_location.city # <<>> /\ record_location.city # <<>>
                    /\ city_score > 70
    IN [score |-> LocationFinalScore(
                      (IF has_state THEN <<state_score * 60>> ELSE <<>>)
                      \o (IF has_county THEN <<county_score * 42>> ELSE <<>>)
                      \o (IF has_city THEN <<city_score * 60>> ELSE <<>>)),
        reasons |->
            (IF has_state
             THEN IF state_exact THEN <<Reason("Exact state match", None)>>
                  ELSE <<Reason("Similar state match", state_score)>>
             ELSE <<>>)
            \o (IF has_county THEN <<Reason("County match", county_score)>> ELSE <<>>)
            \o (IF has_city THEN <<Reason("City match", city_score)>> ELSE <<>>)]

\* The score and the reasons _match_location builds from the ratios of the
\* three fields, in units of 1/100.
LocationResult(record_location, criteria_location, state_score, county_score, city_score) ==
    LET both_state == criteria_location.state # <<>> /\ record_location.state # <<>>
        state_exact == both_state
                       /\ upper(criteria_location.state) = upper(record_location.state)
        has_state == both_state /\ (state_exact \/ state_score > 30)
        has_county == criteria_location.county # <<>> /\ record_location.county # <<>>
                      /\ county_score > 70
        has_city == criteria_location.city # <<>> /\ record_location.city # <<>>
                    /\ city_score > 70
    IN [score |-> LocationFinalScore(
                      (IF has_state THEN <<state_score * 60>> ELSE <<>>)
                      \o (IF has_county THEN <<county_score * 42>> ELSE <<>>)
                      \o (IF has_city THEN <<city_score * 30>> ELSE <<>>)),
        reasons |->
            (IF has_state
             THEN IF state_exact THEN <<Reason("Exact state match", None)>>
                  ELSE <<Reason("Similar state match", state_score)>>
             ELSE <<>>)
            \o (IF has_county THEN <<Reason("County match", county_score)>> ELSE <<>>)
            \o (IF has_city THEN <<Reason("City match", city_score)>> ELSE <<>>)]

\* _match_location: the location score in units of 1/Scale and the reasons.
_match_location(record_location, criteria_location) ==
    LocationResult(record_location, criteria_location,
                   StateScore(criteria_location.state, record_location.state),
                   ratio(lower(criteria_location.county), lower(record_location.county)),
                   ratio(lower(criteria_location.city), lower(record_location.city)))

\* A confidence: the fraction n / (d * Scale).
Confidence(n, d) == [n |-> n, d |-> d]

\* c1 >= c2 and c1 = c2 on confidences.
ConfGE(c1, c2) == c1.n * c2.d >= c2.n * c1.d

ConfEQ(c1, c2) == c1.n * c2.d = c2.n * c1.d

ConfGEThreshold_Strict(c, threshold) == c.n > threshold * c.d

\* confidence >= threshold, the threshold in units of 1/Scale.
ConfGEThreshold(c, threshold) == c.n >= threshold * c.d

\* scores after scores.update(pc_score) and scores['location'] = location_score.
ScoresDict(pc_score, location_score) ==
    [c \in DOMAIN pc_score \cup {"location"} |->
        IF c = "location" THEN location_score ELSE pc_score[c]]

WeightedAverage_EmptyIsOne(scores) ==
    LET used == {c \in DOMAIN scores : scores[c] > 0}
        total_score == SumSeq([k \in 1..Len(Categories) |->
                                  IF Categories[k] \in used
                                  THEN scores[Categories[k]] * weight_config(Categories[k])
                                  ELSE 0])
        total_weight == SumSeq([k \in 1..Len(Categories) |->
                                   IF Categories[k] \in used
                                   THEN weight_config(Categories[k]) ELSE 0])
    IN IF total_weight > 0 THEN Confidence(total_score, total_weight)
       ELSE Confidence(Scale, 1)

\* The weighted average of calculate_match_score over the categories of
\* scores whose score is positive.
WeightedAverage(scores) ==
    LET used == {c \in DOMAIN scores : scores[c] > 0}
        total_score == SumSeq([k \in 1..Len(Categories) |->
                                  IF Categories[k] \in used
                                  THEN scores[Categories[k]] * weight_config(Categories[k])
                                  ELSE 0])
        total_weight == SumSeq([k \in 1..Len(Categories) |->
                                   IF Categories[k] \in used
                                   THEN weight_config(Categories[k]) ELSE 0])
    IN IF total_weight > 0 THEN Confidence(total_score, total_weight)
       ELSE Confidence(0, 1)

MatchScore_LocationFirst(pc, loc) ==
    [final_score |-> WeightedAverage(ScoresDict(pc.scores, loc.score)),
     match_reasons |-> loc.reasons \o pc.reasons]

\* What calculate_match_score returns for the results pc and loc of the two
\* matchers.
MatchScore(pc, loc) ==
    [final_score |-> WeightedAverage(ScoresDict(pc.scores, loc.score)),
     match_reasons |-> pc.reasons \o loc.reasons]

\* calculate_match_score: (final_score, match_reasons).
calculate_match_score(record, criteria) ==
    MatchScore(_match_physical_characteristics(record.physical_characteristics,
                                               criteria.physical_characteristics),
               _match_location(record.location_found, criteria.location))

(***************************************************************************)
(* src/models/person.py: the dataclasses.                                  *)
(***************************************************************************)
PhysicalCharacteristics(height_min, height_max, weight_min, weight_max, race, sex, age_min, age_max, distinguishing_marks) ==
    [height_min |-> height_min, height_max |-> height_max,
     weight_min |-> weight_min, weight_max |-> weight_max,
     race |-> race, sex |-> sex, age_min |-> age_min, age_max |-> age_max,
     distinguishing_marks |-> distinguishing_marks]

Location(state, county, city) == [state |-> state, county |-> county, city |-> city]

PersonRecord(case_id, database_source, physical_characteristics, location_found) ==
    [case_id |-> case_id, database_source |-> database_source,
     physical_characteristics |-> physical_characteristics,
     location_found |-> location_found]

\* The databases argument of SearchCriteria: Python's None or a list.
NoDatabases == [is_none |-> TRUE, value |-> <<>>]

DatabaseList(names) == [is_none |-> FALSE, value |-> names]

\* SearchCriteria with its __post_init__ default for databases.
SearchCriteria(physical_characteristics, location, databases) ==
    [physical_characteristics |-> physical_characteristics,
     location |-> location,
     databases |-> IF databases.is_none
                   THEN <<"MockDB", "NamUs", "DoeNetwork">>
                   ELSE databases.value]

\* SearchResult; arrival is the position of person_record in the list of
\* fetched records (the identity of the record object).
SearchResult(person_record, confidence_score, match_reasons, arrival) ==
    [person_record |-> person_record, confidence_score |-> confidence_score,
     match_reasons |-> match_reasons, arrival |-> arrival]

(***************************************************************************)
(* src/database/manager.py: DatabaseManager.                               *)
(* The data sources are the environment: in one call is_available(name)    *)
(* is available[name], and search(criteria) of source name is              *)
(* outcome[name], which either raises or returns a list of records.        *)
(***************************************************************************)
\* DatabaseManager.__init__: the keys of self.databases in insertion order.
InitDatabases == <<"NamUs", "DoeNetwork">>

InSeq(x, xs) == \E k \in 1..Len(xs) : xs[k] = x

Raises == [raised |-> TRUE, records |-> <<>>]

Returns(records) == [raised |-> FALSE, records |-> records]

get_available_databases(dbs, available) ==
    SelectSeq(dbs, LAMBDA name : available[name])

databases_to_search_RegistryOrder(dbs, criteria, available) ==
    LET available_dbs == get_available_databases(dbs, available)
        requested_and_available ==
            SelectSeq(available_dbs, LAMBDA db : InSeq(db, criteria.databases))
    IN IF criteria.databases # <<>>
       THEN IF requested_and_available # <<>>
            THEN requested_and_available
            ELSE available_dbs
       ELSE available_dbs

databases_to_search_NoFallback(dbs, criteria, available) ==
    IF criteria.databases # <<>>
    THEN SelectSeq(criteria.databases,
                   LAMBDA db : InSeq(db, get_available_databases(dbs, available)))
    ELSE get_available_databases(dbs, available)

\* The choice of databases_to_search in search_all.
databases_to_search(dbs, criteria, available) ==
    LET available_dbs == get_available_databases(dbs, available)
        requested_and_available ==
            SelectSeq(criteria.databases, LAMBDA db : InSeq(db, available_dbs))
    IN IF criteria.databases # <<>>
       THEN IF requested_and_available # <<>>
            THEN requested_and_available
            ELSE available_dbs
       ELSE available_dbs

NoFetch == [all_records |-> <<>>, fetched |-> <<>>, warnings |-> <<>>, raised |-> "None"]

FetchStep_Silent(acc, db_name, result) ==
    IF result.raised
    THEN [acc EXCEPT !.fetched = Append(@, db_name)]
    ELSE [acc EXCEPT !.fetched = Append(@, db_name),
                     !.all_records = @ \o result.records]

FetchStep_NoCatch(acc, db_name, result) ==
    IF result.raised
    THEN [acc EXCEPT !.fetched = Append(@, db_name), !.raised = "Exception"]
    ELSE [acc EXCEPT !.fetched = Append(@, db_name),
                     !.all_records = @ \o result.records]

\* One try / except of search_all: search() of db_name is called and does
\* result; its records extend all_records, its error is printed.
FetchStep(acc, db_name, result) ==
    IF result.raised
    THEN [acc EXCEPT !.fetched = Append(@, db_name),
                     !.warnings = Append(@, db_name)]
    ELSE [acc EXCEPT !.fetched = Append(@, db_name),
                     !.all_records = @ \o result.records]

\* The fetch loop of search_all over the names still to search: acc holds
\* all_records, the names whose search() was called, the names for which an
\* error was printed and the exception that left the loop, if any.
RECURSIVE FetchLoop(_, _, _, _)
FetchLoop(todo, dbs, outcome, acc) ==
    IF todo = <<>> \/ acc.raised # "None" THEN acc
    ELSE LET db_name == Head(todo)
         IN IF ~InSeq(db_name, dbs)
            THEN FetchLoop(Tail(todo), dbs, outcome, acc)
            ELSE FetchLoop(Tail(todo), dbs, outcome,
                           FetchStep(acc, db_name, outcome[db_name]))

\* DatabaseManager.search_all.
search_all(dbs, criteria, available, outcome) ==
    FetchLoop(databases_to_search(dbs, criteria, available), dbs, outcome, NoFetch)

manager_search_database_AllSources(dbs, database_name, outcome) ==
    IF ~InSeq(database_name, dbs)
    THEN [NoFetch EXCEPT !.raised = "ValueError"]
    ELSE FetchLoop(dbs, dbs, outcome, NoFetch)

manager_search_database_NoCheck(dbs, database_name, outcome) ==
    IF ~InSeq(database_name, dbs)
    THEN [NoFetch EXCEPT !.raised = "KeyError"]
    ELSE IF outcome[database_name].raised
         THEN [NoFetch EXCEPT !.fetched = <<database_name>>, !.raised = "Exception"]
         ELSE [NoFetch EXCEPT !.fetched = <<database_name>>,
                              !.all_records = outcome[database_name].records]

\* DatabaseManager.search_database.
manager_search_database(dbs, database_name, outcome) ==
    IF ~InSeq(database_name, dbs)
    THEN [NoFetch EXCEPT !.raised = "ValueError"]
    ELSE IF outcome[database_name].raised
         THEN [NoFetch EXCEPT !.fetched = <<database_name>>, !.raised = "Exception"]
         ELSE [NoFetch EXCEPT !.fetched = <<database_name>>,
                              !.all_records = outcome[database_name].records]

(***************************************************************************)
(* src/search/engine.py: SearchEngine.                                     *)
(***************************************************************************)
\* SearchEngine.__init__: min_confidence_threshold = 0.3.
InitThreshold == (3 * Scale) \div 10

NoScores == [search_results |-> <<>>, scored |-> <<>>]

ScoreStep_Carry(acc, record, k, m, threshold) ==
    [search_results |-> IF ConfGEThreshold(m.final_score, threshold)
                           \/ acc.search_results # <<>>
                        THEN Append(acc.search_results,
                                    SearchResult(record, m.final_score,
                                                 m.match_reasons, k))
                        ELSE acc.search_results,
     scored |-> Append(acc.scored, m)]

ScoreStep_DefaultThreshold(acc, record, k, m, threshold) ==
    [search_results |-> IF ConfGEThreshold(m.final_score, InitThreshold)
                        THEN Append(acc.search_results,
                                    SearchResult(record, m.final_score,
                                                 m.match_reasons, k))
                        ELSE acc.search_results,
     scored |-> Append(acc.scored, m)]

\* One pass of the scoring loop, for the k-th record and what
\* calculate_match_score returned for it.
ScoreStep(acc, record, k, m, threshold) ==
    [search_results |-> IF ConfGEThreshold(m.final_score, threshold)
                        THEN Append(acc.search_results,
                                    SearchResult(record, m.final_score,
                                                 m.match_reasons, k))
                        ELSE acc.search_results,
     scored |-> Append(acc.scored, m)]

\* The scoring loop of search and search_database from position k of records
\* on: acc.search_results is the list the loop appends to, acc.scored what
\* calculate_match_score returned for each record scored so far.
RECURSIVE ScoreLoop(_, _, _, _, _)
ScoreLoop(records, k, criteria, threshold, acc) ==
    IF k > Len(records) THEN acc
    ELSE ScoreLoop(records, k + 1, criteria, threshold,
                   ScoreStep(acc, records[k], k,
                             calculate_match_score(records[k], criteria), threshold))

StaysBefore_Strict(x, r) ==
    x.confidence_score.n * r.confidence_score.d
        > r.confidence_score.n * x.confidence_score.d

\* The order of the sort, by key confidence_score with reverse=True: x, which
\* came before r, stays before it unless its confidence is lower (list.sort
\* is stable, also with reverse=True).
StaysBefore(x, r) == ConfGE(x.confidence_score, r.confidence_score)

\* Insert r into a list sorted by descending confidence.
RECURSIVE InsertDesc(_, _)
InsertDesc(sorted, r) ==
    IF sorted = <<>> THEN <<r>>
    ELSE IF StaysBefore(Head(sorted), r)
         THEN <<Head(sorted)>> \o InsertDesc(Tail(sorted), r)
         ELSE <<r>> \o sorted

RECURSIVE SortFrom(_, _, _)
SortFrom(xs, k, sorted) ==
    IF k > Len(xs) THEN sorted
    ELSE SortFrom(xs, k + 1, InsertDesc(sorted, xs[k]))

SortByConfidence_Unsorted(search_results) == search_results

\* search_results.sort(key=lambda x: x.confidence_score, reverse=True)
SortByConfidence(search_results) == SortFrom(search_results, 1, <<>>)

SliceTo_OffByOne(xs, n) ==
    IF n >= 0 THEN SubSeq(xs, 1, Min2(n + 1, Len(xs)))
    ELSE SubSeq(xs, 1, Max2(0, Len(xs) + n))

\* xs[:n] with Python's slice semantics (a negative n counts from the end).
SliceTo(xs, n) ==
    IF n >= 0 THEN SubSeq(xs, 1, Min2(n, Len(xs)))
    ELSE SubSeq(xs, 1, Max2(0, Len(xs) + n))

Clamp_NoUpper(threshold) == Max2(0, threshold)

\* max(0.0, min(1.0, threshold))
Clamp(threshold) == Max2(0, Min2(Scale, threshold))

(***************************************************************************)
(* The inputs the operations are exercised with.                           *)
(***************************************************************************)
\* Longest list of records one data source returns from one search().
MaxFetch == 2

NoPC == PhysicalCharacteristics(None, None, None, None, "None", "None", None, None, <<>>)

NoLocation == Location(<<>>, <<>>, <<>>)

CA == <<"C","A">>

Kern == <<"K","e","r","n">>

Taft == <<"T","a","f","t">>

Tattoo == <<"t","a","t","t","o","o">>

\* Records of the NamUs source.
N1 == PersonRecord("N1", "NamUs",
          PhysicalCharacteristics(66, 68, None, None, "WHITE", "FEMALE", None, None, <<>>),
          Location(CA, <<>>, <<>>))

N2 == PersonRecord("N2", "NamUs",
          PhysicalCharacteristics(67, 68, None, None, "None", "FEMALE", None, None, <<>>),
          Location(<<"c","a">>, Kern, Taft))

N3 == PersonRecord("N3", "NamUs", NoPC, NoLocation)

\* Records of the DoeNetwork source.
D1 == PersonRecord("D1", "DoeNetwork",
          PhysicalCharacteristics(68, 69, 150, 170, "NATIVE_AMERICAN", "MALE", 30, 40,
                                  <<Tattoo>>),
          Location(<<"C","O">>, <<"K","e","r","n","s">>, <<"T","a","f","t">>))

D2 == PersonRecord("D2", "DoeNetwork",
          PhysicalCharacteristics(67, None, None, None, "None", "FEMALE", None, None, <<>>),
          Location(CA, <<>>, <<>>))

\* An infant: age 0, no height or weight on record.
D3 == PersonRecord("D3", "DoeNetwork",
          PhysicalCharacteristics(None, None, None, None, "None", "FEMALE", 0, 0, <<>>),
          Location(CA, <<>>, <<>>))

Pool(name) ==
    CASE name = "NamUs" -> {N1, N2, N3}
      [] name = "DoeNetwork" -> {D1, D2, D3}
      [] OTHER -> {}

\* The lists of at most n records over a set of records.
SeqsUpTo(S, n) == UNION {[1..k -> S] : k \in 0..n}

\* A list that holds no record twice.
Distinct(rs) == \A i, j \in 1..Len(rs) : i # j => rs[i] # rs[j]

\* What one source's search() can do in one call: raise, or return some of
\* its records, each at most once, in any order.
FetchOutcomes(name) ==
    {Raises} \cup {Returns(rs) : rs \in {xs \in SeqsUpTo(Pool(name), MaxFetch) : Distinct(xs)}}

SourceNames == {"NamUs", "DoeNetwork"}

\* What the sources can do in one call in which exactly the sources in
\* called have their search() called.
OutcomesOver(called) ==
    {o \in [SourceNames -> UNION {FetchOutcomes(n) : n \in SourceNames}] :
        \A n \in SourceNames : IF n \in called THEN o[n] \in FetchOutcomes(n)
                                ELSE o[n] = Returns(<<>>)}

Availabilities == [SourceNames -> BOOLEAN]

QEmpty == [pc |-> NoPC, loc |-> NoLocation]

QSex == [pc |-> PhysicalCharacteristics(None, None, None, None, "None", "FEMALE",
                                        None, None, <<>>),
         loc |-> NoLocation]

QHeight == [pc |-> PhysicalCharacteristics(64, 66, None, None, "None", "None",
                                           None, None, <<>>),
            loc |-> NoLocation]

QHeightSex == [pc |-> PhysicalCharacteristics(64, 66, None, None, "None", "FEMALE",
                                              None, None, <<>>),
               loc |-> Location(CA, <<>>, <<>>)]

QFull == [pc |-> PhysicalCharacteristics(64, 66, 140, 160, "BLACK_AFRICAN_AMERICAN",
                                         "MALE", 25, 35,
                                         <<<<"t","a","t","o","o">>>>),
          loc |-> Location(CA, Kern, Taft)]

\* Up to 5 years old.
QInfant == [pc |-> PhysicalCharacteristics(None, None, None, None, "None", "None",
                                           None, 5, <<>>),
            loc |-> NoLocation]

\* A girl of 3 to 10 years, 60 to 64 inches.
QChild == [pc |-> PhysicalCharacteristics(60, 64, None, None, "None", "FEMALE",
                                          3, 10, <<>>),
           loc |-> NoLocation]

\* A place and nothing else.
QLocation == [pc |-> NoPC, loc |-> Location(CA, Kern, Taft)]

Queries == {QEmpty, QSex, QHeight, QHeightSex, QFull, QInfant, QChild, QLocation}

DatabaseArgs == {NoDatabases, DatabaseList(<<>>), DatabaseList(<<"NamUs">>),
                 DatabaseList(<<"DoeNetwork", "NamUs">>),
                 DatabaseList(<<"MockDB", "NamUs">>),
                 DatabaseList(<<"NamUs", "NamUs">>)}

\* Every query with the default databases, two of them with every databases
\* argument.
CriteriaInputs ==
    {SearchCriteria(q.pc, q.loc, NoDatabases) : q \in Queries}
    \cup {SearchCriteria(q.pc, q.loc, d) : q \in {QSex, QHeight}, d \in DatabaseArgs}

DefaultMaxResults == 50

MaxResultsInputs == {0 - 1, 0, 1, 2, DefaultMaxResults}

ThresholdInputs == {0 - (Scale \div 2), 0, Scale \div 2, Scale, Scale + Scale \div 2}

DatabaseNameInputs == {"NamUs", "DoeNetwork", "MockDB"}

(***************************************************************************)
(* The state machine.                                                      *)
(***************************************************************************)
VARIABLES
    min_confidence_threshold, \* SearchEngine.min_confidence_threshold * Scale
    databases,                \* the keys of DatabaseManager.databases, in order
    threshold_set,            \* set_confidence_threshold has been called
    op,                       \* the operation that has just returned, or "idle"
    call,                     \* its arguments and what the sources did in it
    fetch,                    \* what the DatabaseManager did in it
    scored,                   \* what calculate_match_score returned, per record
    survivors,                \* search_results after the scoring loop
    ret                       \* what it returned or raised

vars == <<min_confidence_threshold, databases, threshold_set, op, call, fetch,
          scored, survivors, ret>>

NoCriteria == SearchCriteria(NoPC, NoLocation, DatabaseList(<<>>))

NoOutcome == [n \in SourceNames |-> Returns(<<>>)]

NoCall == [criteria |-> NoCriteria, max_results |-> 0, database_name |-> "",
           threshold |-> 0, available |-> [n \in SourceNames |-> FALSE],
           outcome |-> NoOutcome]

Returned(results, names) == [raised |-> "None", results |-> results, names |-> names]

Raised(error) == [raised |-> error, results |-> <<>>, names |-> <<>>]

Init ==
    /\ min_confidence_threshold = InitThreshold
    /\ databases = InitDatabases
    /\ threshold_set = FALSE
    /\ op = "idle"
    /\ call = NoCall
    /\ fetch = NoFetch
    /\ scored = <<>>
    /\ survivors = <<>>
    /\ ret = Returned(<<>>, <<>>)

Ranked_SliceFirst(loop, max_results) ==
    [scored |-> loop.scored,
     survivors |-> loop.search_results,
     results |-> SortByConfidence(SliceTo(loop.search_results, max_results))]

\* What follows the scoring loop in search and search_database: the sort and
\* the slice.
Ranked(loop, max_results) ==
    [scored |-> loop.scored,
     survivors |-> loop.search_results,
     results |-> SliceTo(SortByConfidence(loop.search_results), max_results)]

\* The part of search and search_database after the records are fetched.
Pipeline(records, criteria, threshold, max_results) ==
    Ranked(ScoreLoop(records, 1, criteria, threshold, NoScores), max_results)

Completed_ResetsThreshold(name, c, f, p) ==
    /\ op' = name
    /\ call' = c
    /\ fetch' = f
    /\ scored' = IF f.raised = "None" THEN p.scored ELSE <<>>
    /\ survivors' = IF f.raised = "None" THEN p.survivors ELSE <<>>
    /\ ret' = IF f.raised = "None" THEN Returned(p.results, <<>>)
              ELSE Raised(f.raised)
    /\ min_confidence_threshold' = InitThreshold
    /\ UNCHANGED <<databases, threshold_set>>

\* A call of search or search_database with arguments c in which the
\* DatabaseManager did f and the rest of the call p: an exception of the
\* manager propagates.
Completed(name, c, f, p) ==
    /\ op' = name
    /\ call' = c
    /\ fetch' = f
    /\ scored' = IF f.raised = "None" THEN p.scored ELSE <<>>
    /\ survivors' = IF f.raised = "None" THEN p.survivors ELSE <<>>
    /\ ret' = IF f.raised = "None" THEN Returned(p.results, <<>>)
              ELSE Raised(f.raised)
    /\ UNCHANGED <<min_confidence_threshold, databases, threshold_set>>

Searched(name, c, f) ==
    Completed(name, c, f,
              Pipeline(f.all_records, c.criteria, min_confidence_threshold,
                       c.max_results))

\* SearchEngine.search(criteria, max_results)
Search ==
    /\ op = "idle"
    /\ \E criteria \in CriteriaInputs, max_results \in MaxResultsInputs,
          available \in Availabilities :
       \E outcome \in OutcomesOver(
               {n \in SourceNames :
                   InSeq(n, databases_to_search(databases, criteria, available))}) :
           Searched("search",
                    [NoCall EXCEPT !.criteria = criteria,
                                   !.max_results = max_results,
                                   !.available = available,
                                   !.outcome = outcome],
                    search_all(databases, criteria, available, outcome))

\* SearchEngine.search_database(database_name, criteria, max_results)
SearchDatabase ==
    /\ op = "idle"
    /\ \E database_name \in DatabaseNameInputs, criteria \in CriteriaInputs,
          max_results \in MaxResultsInputs :
       \E outcome \in OutcomesOver({database_name} \cap SourceNames) :
           Searched("search_database",
                    [NoCall EXCEPT !.criteria = criteria,
                                   !.max_results = max_results,
                                   !.database_name = database_name,
                                   !.outcome = outcome],
                    manager_search_database(databases, database_name, outcome))

\* SearchEngine.get_available_databases()
GetAvailableDatabases ==
    /\ op = "idle"
    /\ \E available \in Availabilities :
        /\ op' = "get_available_databases"
        /\ call' = [NoCall EXCEPT !.available = available]
        /\ fetch' = NoFetch
        /\ scored' = <<>>
        /\ survivors' = <<>>
        /\ ret' = Returned(<<>>, get_available_databases(databases, available))
        /\ UNCHANGED <<min_confidence_threshold, databases, threshold_set>>

\* SearchEngine.set_confidence_threshold(threshold)
SetConfidenceThreshold ==
    /\ op = "idle"
    /\ \E threshold \in ThresholdInputs :
        /\ min_confidence_threshold' = Clamp(threshold)
        /\ threshold_set' = TRUE
        /\ op' = "set_confidence_threshold"
        /\ call' = [NoCall EXCEPT !.threshold = threshold]
        /\ fetch' = NoFetch
        /\ scored' = <<>>
        /\ survivors' = <<>>
        /\ ret' = Returned(<<>>, <<>>)
        /\ UNCHANGED databases

\* The caller takes what the last call returned; the engine is idle again.
Return ==
    /\ op # "idle"
    /\ op' = "idle"
    /\ call' = NoCall
    /\ fetch' = NoFetch
    /\ scored' = <<>>
    /\ survivors' = <<>>
    /\ ret' = Returned(<<>>, <<>>)
    /\ UNCHANGED <<min_confidence_threshold, databases, threshold_set>>

Next ==
    \/ Return
    \/ Search
    \/ SearchDatabase
    \/ GetAvailableDatabases
    \/ SetConfidenceThreshold

Spec == Init /\ [][Next]_vars

TypeOK ==
    /\ min_confidence_threshold \in 0..Scale
    /\ op \in {"idle", "search", "search_database", "get_available_databases",
               "set_confidence_threshold"}

(***************************************************************************)
(* Properties.                                                             *)
(***************************************************************************)
IsSearchOp == op \in {"search", "search_database"}

\* 0 <= c <= 1 for a confidence c.
InUnitInterval(c) == c.d > 0 /\ 0 <= c.n /\ c.n <= c.d * Scale

\* C1: every confidence calculate_match_score returns, and so the
\* confidence_score of every result search and search_database return, lies
\* between 0.0 and 1.0.
C1_ConfidenceInUnitInterval ==
    /\ \A k \in 1..Len(scored) : InUnitInterval(scored[k].final_score)
    /\ \A k \in 1..Len(ret.results) : InUnitInterval(ret.results[k].confidence_score)

\* A search returned a result built from three location sub-matches and
\* another category, with a confidence strictly between 0 and 1.
C1_Witness ==
    /\ op = "search"
    /\ \E k \in 1..Len(ret.results) :
          LET r == ret.results[k]
          IN /\ 0 < r.confidence_score.n
             /\ r.confidence_score.n < r.confidence_score.d * Scale
             /\ Len(r.match_reasons) >= 4
             /\ \E i \in 1..Len(r.match_reasons) : r.match_reasons[i].text = "City match"

\* The sources search queried in the last call, and those among them whose
\* search() raised.
Queried == databases_to_search(databases, call.criteria, call.available)

Failing == {n \in SourceNames : InSeq(n, Queried) /\ call.outcome[n].raised}

NotFailing == {n \in SourceNames : InSeq(n, Queried) /\ ~call.outcome[n].raised}

\* The search of criteria only, with what the sources did in the last call.
SearchOf(only) ==
    Pipeline(search_all(databases, only, call.available, call.outcome).all_records,
             only, min_confidence_threshold, call.max_results)

\* The same search asked of the sources that did not fail only.
SearchOfNotFailing ==
    SearchOf([call.criteria EXCEPT
                 !.databases = SelectSeq(Queried, LAMBDA n : n \in NotFailing)])

\* C2: when the search() of one queried source raises and that of another
\* does not, search raises nothing and returns the list it returns when only
\* the sources that did not fail are queried.
C2_FailingSourceIsolated ==
    (op = "search" /\ Failing # {} /\ NotFailing # {})
        => /\ ret.raised = "None"
           /\ ret.results = SearchOfNotFailing.results

\* A search in which one source failed and the other contributed results.
C2_Witness ==
    /\ op = "search"
    /\ Failing # {}
    /\ NotFailing # {}
    /\ fetch.warnings # <<>>
    /\ Len(ret.results) >= 2

\* C3: the confidence is non-increasing along the list search and
\* search_database return.
C3_NonIncreasing ==
    IsSearchOp =>
        \A i, j \in 1..Len(ret.results) :
            i < j => ret.results[i].confidence_score.n * ret.results[j].confidence_score.d
                       >= ret.results[j].confidence_score.n * ret.results[i].confidence_score.d

\* search and search_database each returned a list whose first element
\* arrived after its second and has a strictly higher confidence.
C3_Reordered(name) ==
    /\ op = name
    /\ Len(ret.results) >= 2
    /\ ret.results[1].arrival > ret.results[2].arrival
    /\ ~ConfEQ(ret.results[1].confidence_score, ret.results[2].confidence_score)

C3_Witness == C3_Reordered("search")

C3_WitnessDatabase == C3_Reordered("search_database")

\* The records the sources named in names delivered, source after source.
RECURSIVE Delivered(_)
Delivered(names) ==
    IF names = <<>> THEN <<>>
    ELSE (IF call.outcome[Head(names)].raised THEN <<>>
          ELSE call.outcome[Head(names)].records) \o Delivered(Tail(names))

\* C4: the sort of search is stable: results of equal confidence are in the
\* order in which their records were delivered, by order of the sources
\* searched and then by order within a source.
C4_StableSort ==
    op = "search" =>
        /\ fetch.all_records = Delivered(fetch.fetched)
        /\ \A k \in 1..Len(ret.results) :
              /\ ret.results[k].arrival \in 1..Len(fetch.all_records)
              /\ ret.results[k].person_record
                    = fetch.all_records[ret.results[k].arrival]
        /\ \A i, j \in 1..Len(ret.results) :
              (i < j /\ ConfEQ(ret.results[i].confidence_score,
                               ret.results[j].confidence_score))
                  => ret.results[i].arrival < ret.results[j].arrival

\* A search returned two different records of equal confidence from two
\* sources, both ranked above a record that had arrived before them.
C4_Witness ==
    /\ op = "search"
    /\ Len(ret.results) >= 3
    /\ ConfEQ(ret.results[1].confidence_score, ret.results[2].confidence_score)
    /\ ret.results[1].person_record.database_source
          # ret.results[2].person_record.database_source
    /\ ret.results[3].arrival < ret.results[1].arrival
    /\ ~ConfEQ(ret.results[2].confidence_score, ret.results[3].confidence_score)

\* C5 as stated: for every integer max_results, search and search_database
\* return at most max_results results.
C5_Original ==
    (IsSearchOp /\ ret.raised = "None") => Len(ret.results) <= call.max_results

\* C5, amended: for every non-negative max_results, search and
\* search_database return at most max_results results.
C5_CapRespected ==
    (IsSearchOp /\ ret.raised = "None" /\ call.max_results >= 0)
        => Len(ret.results) <= call.max_results

\* A search whose survivors outnumbered a positive max_results returned
\* exactly max_results of them.
C5_Witness ==
    /\ op = "search"
    /\ call.max_results > 0
    /\ Len(survivors) > call.max_results
    /\ Len(ret.results) = call.max_results

\* How often search_results holds the record that arrived k-th.
TimesKept(k) == Cardinality({i \in 1..Len(survivors) : survivors[i].arrival = k})

\* C6: before the slice, the results of search are exactly the fetched
\* records whose confidence is not below min_confidence_threshold, each once
\* per time it was fetched and with the confidence it was given; the
\* threshold of an engine whose setter was never called is 0.3.
C6_ThresholdExact ==
    /\ ~threshold_set => 10 * min_confidence_threshold = 3 * Scale
    /\ op = "search" =>
          /\ Len(scored) = Len(fetch.all_records)
          /\ \A k \in 1..Len(fetch.all_records) :
                /\ scored[k] = calculate_match_score(fetch.all_records[k], call.criteria)
                /\ TimesKept(k) =
                      IF scored[k].final_score.n
                            >= min_confidence_threshold * scored[k].final_score.d
                      THEN 1 ELSE 0
          /\ \A i \in 1..Len(survivors) :
                /\ survivors[i].arrival \in 1..Len(fetch.all_records)
                /\ survivors[i].person_record = fetch.all_records[survivors[i].arrival]
                /\ survivors[i].confidence_score
                      = scored[survivors[i].arrival].final_score

\* A search kept a record whose confidence equals the threshold and dropped
\* one whose confidence is positive but lower.
C6_Witness ==
    /\ op = "search"
    /\ min_confidence_threshold > 0
    /\ \E i \in 1..Len(survivors) :
          survivors[i].confidence_score.n
              = min_confidence_threshold * survivors[i].confidence_score.d
    /\ \E k \in 1..Len(scored) :
          /\ scored[k].final_score.n > 0
          /\ scored[k].final_score.n < min_confidence_threshold * scored[k].final_score.d
          /\ TimesKept(k) = 0

\* C7: min_confidence_threshold always lies in [0.0, 1.0], and
\* set_confidence_threshold(t) sets it to t when 0 <= t <= 1, to 0.0 when
\* t < 0 and to 1.0 when t > 1.
C7_ThresholdClamped ==
    /\ 0 <= min_confidence_threshold
    /\ min_confidence_threshold <= Scale
    /\ op = "set_confidence_threshold" =>
          min_confidence_threshold =
              IF call.threshold < 0 THEN 0
              ELSE IF call.threshold > Scale THEN Scale
              ELSE call.threshold

\* set_confidence_threshold was called with a threshold above 1.0.
C7_Witness ==
    /\ op = "set_confidence_threshold"
    /\ call.threshold > Scale
    /\ min_confidence_threshold = Scale

\* C8: search_database with a name that is not registered raises ValueError
\* before any source is queried and any record is scored, and leaves the
\* threshold and the registry as they were.
C8_UnknownDatabaseFailsFast ==
    [][(op' = "search_database" /\ ~InSeq(call'.database_name, databases))
          => /\ ret'.raised = "ValueError"
             /\ fetch'.fetched = <<>>
             /\ scored' = <<>>
             /\ min_confidence_threshold' = min_confidence_threshold
             /\ databases' = databases]_vars

\* search_database was called with the unregistered name MockDB.
C8_Witness ==
    /\ op = "search_database"
    /\ call.database_name = "MockDB"
    /\ ~InSeq(call.database_name, databases)
    /\ ret.raised = "ValueError"

\* C9 as stated: search, and search_database with a registered name, never
\* raise, also when the search() of the source raises.
C9_Original ==
    (op = "search" \/ (op = "search_database" /\ InSeq(call.database_name, databases)))
        => ret.raised = "None"

\* The sources that are available in the last call, and whether the query
\* names one that is not.
AvailableNow == get_available_databases(databases, call.available)

NamesUnavailable ==
    \E k \in 1..Len(call.criteria.databases) :
        ~InSeq(call.criteria.databases[k], AvailableNow)

NamesNoneAvailable ==
    \A k \in 1..Len(call.criteria.databases) :
        ~InSeq(call.criteria.databases[k], AvailableNow)

FetchedSet == {fetch.fetched[k] : k \in 1..Len(fetch.fetched)}

AvailableSet == {AvailableNow[k] : k \in 1..Len(AvailableNow)}

\* C10 as stated: search queries every available source when the query
\* names no sources, and also when it names a source that is unavailable.
C10_Original ==
    op = "search" =>
        /\ ret.raised = "None"
        /\ (call.criteria.databases = <<>> \/ NamesUnavailable)
              => FetchedSet = AvailableSet

\* C10, amended: search queries every available source when the query names
\* no sources (an empty list, or the default list), and also when none of
\* the sources it names is available; the call does not fail.
C10_SourceSelection ==
    op = "search" =>
        /\ ret.raised = "None"
        /\ NamesNoneAvailable => fetch.fetched = AvailableNow
        /\ call.criteria.databases = <<"MockDB", "NamUs", "DoeNetwork">>
              => FetchedSet = AvailableSet

\* A search that named only NamUs while NamUs was unavailable queried
\* DoeNetwork.
C10_Witness ==
    /\ op = "search"
    /\ call.criteria.databases = <<"NamUs">>
    /\ ~call.available["NamUs"]
    /\ call.available["DoeNetwork"]
    /\ fetch.fetched = <<"DoeNetwork">>

\* The scores dict calculate_match_score aggregates for record and criteria.
CategoryScores(record, criteria) ==
    ScoresDict(_match_physical_characteristics(record.physical_characteristics,
                                               criteria.physical_characteristics).scores,
               _match_location(record.location_found, criteria.location).score)

\* The weights of the categories, in hundredths.
C11_Weight(c) ==
    CASE c = "height" -> 20
      [] c = "weight" -> 20
      [] c = "race" -> 15
      [] c = "sex" -> 15
      [] c = "age" -> 15
      [] c = "location" -> 10
      [] c = "distinguishing_marks" -> 5

C11_Positive(S, c) == c \in DOMAIN S /\ S[c] > 0

C11_Term(S, c) == IF C11_Positive(S, c) THEN C11_Weight(c) * S[c] ELSE 0

C11_Used(S, c) == IF C11_Positive(S, c) THEN C11_Weight(c) ELSE 0

\* sum(w_c * s_c) and sum(w_c) over the categories of S with a positive score.
C11_WeightedSum(S) ==
    C11_Term(S, "height") + C11_Term(S, "weight") + C11_Term(S, "race")
    + C11_Term(S, "sex") + C11_Term(S, "age") + C11_Term(S, "location")
    + C11_Term(S, "distinguishing_marks")

C11_WeightSum(S) ==
    C11_Used(S, "height") + C11_Used(S, "weight") + C11_Used(S, "race")
    + C11_Used(S, "sex") + C11_Used(S, "age") + C11_Used(S, "location")
    + C11_Used(S, "distinguishing_marks")

\* conf = N / D, or 0 when D = 0; and conf = S[c] when c is the one category
\* with a positive score.
C11_IsMean(conf, S, N, D) ==
    /\ conf.d > 0
    /\ IF D = 0 THEN conf.n = 0 ELSE conf.n * D = N * conf.d
    /\ \A c \in DOMAIN S :
          (S[c] > 0 /\ D = C11_Weight(c)) => conf.n = S[c] * conf.d

C11_IsMeanOf(conf, S) == C11_IsMean(conf, S, C11_WeightedSum(S), C11_WeightSum(S))

C11_Mixed(conf, S) ==
    /\ Cardinality({c \in DOMAIN S : S[c] > 0}) >= 3
    /\ \E c \in DOMAIN S : S[c] > 0 /\ S[c] < Scale
    /\ 0 < conf.n
    /\ conf.n < conf.d * Scale

RepValue2(lo, hi) ==
    IF lo # None /\ hi # None THEN lo + hi
    ELSE IF lo # None THEN 2 * lo ELSE 2 * hi

\* The query interval, doubled, an absent bound defaulting to the floor 0 or
\* to the ceiling of the attribute.
QueryFloor2(qmin) == IF qmin = None THEN 0 ELSE 2 * qmin

QueryCeiling2(qmax, ceiling) == IF qmax = None THEN 2 * ceiling ELSE 2 * qmax

HasBound(lo, hi) == lo # None \/ hi # None

\* A record with a bound present whose representative value lies within the
\* query interval has the score 1.0.
C12_FullScore(lo, hi, qmin, qmax, ceiling, score) ==
    (/\ HasBound(lo, hi)
     /\ QueryFloor2(qmin) <= RepValue2(lo, hi)
     /\ RepValue2(lo, hi) <= QueryCeiling2(qmax, ceiling))
        => score = Scale

C12_FullScores(record_pc, criteria_pc) ==
    /\ C12_FullScore(record_pc.height_min, record_pc.height_max,
                     criteria_pc.height_min, criteria_pc.height_max, 100,
                     _match_height_range(record_pc, criteria_pc))
    /\ C12_FullScore(record_pc.weight_min, record_pc.weight_max,
                     criteria_pc.weight_min, criteria_pc.weight_max, 500,
                     _match_weight_range(record_pc, criteria_pc))
    /\ C12_FullScore(record_pc.age_min, record_pc.age_max,
                     criteria_pc.age_min, criteria_pc.age_max, 120,
                     _match_age_range(record_pc, criteria_pc))

\* C12 as stated: for height, weight and age, every fetched record with a
\* bound present whose representative value lies within the inclusive query
\* interval - a value equal to a query bound and the value 0 included - has
\* the attribute score 1.0.
C12_Original ==
    IsSearchOp =>
        \A k \in 1..Len(fetch.all_records) :
            C12_FullScores(fetch.all_records[k].physical_characteristics,
                           call.criteria.physical_characteristics)

\* The distance, doubled, of the representative value from the query
\* interval; 0 inside it.
Distance2(lo, hi, qmin, qmax, ceiling) ==
    IF RepValue2(lo, hi) < QueryFloor2(qmin)
    THEN QueryFloor2(qmin) - RepValue2(lo, hi)
    ELSE IF RepValue2(lo, hi) > QueryCeiling2(qmax, ceiling)
         THEN RepValue2(lo, hi) - QueryCeiling2(qmax, ceiling)
         ELSE 0

\* score = 1 - d / tolerance when 0 < d <= tolerance.
C13_Decay(has_bound, d2, tolerance, score) ==
    (has_bound /\ 0 < d2 /\ d2 <= 2 * tolerance)
        => score * 2 * tolerance = Scale * (2 * tolerance - d2)

C13_Decays(record_pc, criteria_pc) ==
    /\ C13_Decay(HasBound(record_pc.height_min, record_pc.height_max),
                 Distance2(record_pc.height_min, record_pc.height_max,
                           criteria_pc.height_min, criteria_pc.height_max, 100),
                 3, _match_height_range(record_pc, criteria_pc))
    /\ C13_Decay(HasBound(record_pc.weight_min, record_pc.weight_max),
                 Distance2(record_pc.weight_min, record_pc.weight_max,
                           criteria_pc.weight_min, criteria_pc.weight_max, 500),
                 20, _match_weight_range(record_pc, criteria_pc))
    /\ C13_Decay(HasBound(record_pc.age_min, record_pc.age_max),
                 Distance2(record_pc.age_min, record_pc.age_max,
                           criteria_pc.age_min, criteria_pc.age_max, 120),
                 5, _match_age_range(record_pc, criteria_pc))

\* C13 as stated: for height, weight and age, a fetched record whose
\* representative value lies outside the query interval at a distance d with
\* 0 < d <= tolerance (3, 20, 5) has the attribute score 1 - d / tolerance.
C13_Original ==
    IsSearchOp =>
        \A k \in 1..Len(fetch.all_records) :
            C13_Decays(fetch.all_records[k].physical_characteristics,
                       call.criteria.physical_characteristics)

\* The record's height midpoint is more than 3 inches outside the query
\* height range.
HeightFarOutside(record_pc, criteria_pc) ==
    /\ HasBound(record_pc.height_min, record_pc.height_max)
    /\ HasBound(criteria_pc.height_min, criteria_pc.height_max)
    /\ Distance2(record_pc.height_min, record_pc.height_max,
                 criteria_pc.height_min, criteria_pc.height_max, 100) > 2 * 3

\* criteria without its height range.
WithoutHeight(criteria) ==
    [criteria EXCEPT !.physical_characteristics.height_min = None,
                     !.physical_characteristics.height_max = None]

\* m, the result of scoring record against criteria, has no height in it and
\* is the result of scoring record against other, the criteria without height.
C14_Excluded(m, record, criteria, other) ==
    /\ _match_height_range(record.physical_characteristics,
                           criteria.physical_characteristics) = 0
    /\ "height" \notin DOMAIN CategoryScores(record, criteria)
    /\ \A i \in 1..Len(m.match_reasons) : m.match_reasons[i].text # "Height match"
    /\ ConfEQ(m.final_score, other.final_score)
    /\ m.match_reasons = other.match_reasons

\* C14: a record whose height midpoint is more than 3 inches outside the
\* query height range has the height score 0, no height entry in the scores
\* that are aggregated and no height reason, and its confidence is the one
\* the same query without a height range gives it.
C14_FarHeightExcluded ==
    IsSearchOp =>
        \A k \in 1..Len(scored) :
            HeightFarOutside(fetch.all_records[k].physical_characteristics,
                             call.criteria.physical_characteristics)
                => C14_Excluded(scored[k], fetch.all_records[k], call.criteria,
                                calculate_match_score(fetch.all_records[k],
                                                      WithoutHeight(call.criteria)))

\* A search scored a record whose height is 3.5 inches above the query range
\* and that matches the query in another category.
C14_Witness ==
    /\ op = "search"
    /\ \E k \in 1..Len(scored) :
          /\ HeightFarOutside(fetch.all_records[k].physical_characteristics,
                              call.criteria.physical_characteristics)
          /\ scored[k].final_score.n > 0
          /\ TimesKept(k) = 1

\* S has a category with a positive score.
Evaluable(S) == \E c \in DOMAIN S : S[c] > 0

\* The record that arrived k-th is in the list the call returned.
Returned_k(k) == \E i \in 1..Len(ret.results) : ret.results[i].arrival = k

\* C15: with the threshold 1.0 every result of search has the confidence
\* 1.0; with the threshold 0.0 every fetched record with a category of
\* positive score is kept by the filter, and returned unless max_results cuts
\* the list.
C15_ThresholdExtremes ==
    op = "search" =>
        /\ min_confidence_threshold = Scale =>
              \A i \in 1..Len(ret.results) :
                  ret.results[i].confidence_score.n
                      = Scale * ret.results[i].confidence_score.d
        /\ min_confidence_threshold = 0 =>
              /\ \A k \in 1..Len(scored) :
                    Evaluable(CategoryScores(fetch.all_records[k], call.criteria))
                        => /\ TimesKept(k) = 1
                           /\ call.max_results >= Len(survivors) => Returned_k(k)
              /\ (call.max_results >= 0 /\ call.max_results < Len(survivors))
                    => Len(ret.results) = call.max_results

\* A search under the threshold 1.0 returned a result and dropped a record
\* with a positive confidence below 1.0.
C15_Witness ==
    /\ op = "search"
    /\ min_confidence_threshold = Scale
    /\ ret.results # <<>>
    /\ \E k \in 1..Len(scored) :
          /\ 0 < scored[k].final_score.n
          /\ scored[k].final_score.n < Scale * scored[k].final_score.d
          /\ TimesKept(k) = 0

\* A search under the threshold 0.0 returned a record with a confidence below
\* the default threshold 0.3.
C15_WitnessZero ==
    /\ op = "search"
    /\ min_confidence_threshold = 0
    /\ \E i \in 1..Len(ret.results) :
          /\ 0 < ret.results[i].confidence_score.n
          /\ 10 * ret.results[i].confidence_score.n
                < 3 * Scale * ret.results[i].confidence_score.d

\* The attributes a PhysicalCharacteristics and a Location specify.
SpecifiedIn(pc, loc) ==
    (IF HasBound(pc.height_min, pc.height_max) THEN {"height"} ELSE {})
    \cup (IF HasBound(pc.weight_min, pc.weight_max) THEN {"weight"} ELSE {})
    \cup (IF HasBound(pc.age_min, pc.age_max) THEN {"age"} ELSE {})
    \cup (IF pc.race # "None" THEN {"race"} ELSE {})
    \cup (IF pc.sex # "None" THEN {"sex"} ELSE {})
    \cup (IF pc.distinguishing_marks # <<>> THEN {"distinguishing_marks"} ELSE {})
    \cup (IF loc.state # <<>> THEN {"state"} ELSE {})
    \cup (IF loc.county # <<>> THEN {"county"} ELSE {})
    \cup (IF loc.city # <<>> THEN {"city"} ELSE {})

RecordAttributes(record) ==
    SpecifiedIn(record.physical_characteristics, record.location_found)

QueryAttributes(criteria) ==
    SpecifiedIn(criteria.physical_characteristics, criteria.location)

\* No attribute is specified by both the record and the query.
NoOverlap(record, criteria) ==
    RecordAttributes(record) \cap QueryAttributes(criteria) = {}

C16_WitnessEmptyQuery ==
    /\ op = "search"
    /\ min_confidence_threshold > 0
    /\ QueryAttributes(call.criteria) = {}
    /\ \E k \in 1..Len(scored) :
          /\ RecordAttributes(fetch.all_records[k]) # {}
          /\ TimesKept(k) = 0

\* C17 as stated: a search with a query that specifies nothing, on an engine
\* with the default threshold and with the default max_results, returns all
\* the records the data sources returned.
C17_Original ==
    (/\ op = "search"
     /\ QueryAttributes(call.criteria) = {}
     /\ ~threshold_set
     /\ call.max_results = DefaultMaxResults)
        => /\ ret.raised = "None"
           /\ Len(ret.results) = Len(fetch.all_records)
           /\ \A k \in 1..Len(fetch.all_records) : Returned_k(k)

\* What search returns for the criteria of the last call when they name the
\* one source name, every source is available and the sources do what they
\* did in the last call.
SearchOfSource(name) ==
    Pipeline(search_all(databases, [call.criteria EXCEPT !.databases = <<name>>],
                        [n \in SourceNames |-> TRUE], call.outcome).all_records,
             call.criteria, min_confidence_threshold, call.max_results)

\* C18: search_database with a registered name whose source returns records
\* queries that source and no other, scores exactly the records it returned,
\* keeps those with confidence >= threshold, and returns the list search
\* returns when it is restricted to that source.
C18_SamePipeline ==
    (/\ op = "search_database"
     /\ InSeq(call.database_name, databases)
     /\ ~call.outcome[call.database_name].raised)
        => /\ ret.raised = "None"
           /\ fetch.fetched = <<call.database_name>>
           /\ fetch.all_records = call.outcome[call.database_name].records
           /\ Len(scored) = Len(fetch.all_records)
           /\ \A k \in 1..Len(scored) :
                 TimesKept(k) =
                     IF scored[k].final_score.n
                           >= min_confidence_threshold * scored[k].final_score.d
                     THEN 1 ELSE 0
           /\ ret.results = SearchOfSource(call.database_name).results

\* search_database returned the second of the two records its source
\* returned and dropped the first, whose confidence is positive but below the
\* threshold.
C18_Witness ==
    /\ op = "search_database"
    /\ InSeq(call.database_name, databases)
    /\ Len(scored) = 2
    /\ scored[1].final_score.n > 0
    /\ Len(ret.results) = 1
    /\ ret.results[1].arrival = 2

\* How often x occurs in the list xs.
Count(x, xs) == Cardinality({i \in 1..Len(xs) : xs[i] = x})

\* C19 as stated: in one search, exactly one warning is printed for each
\* source whose search() raised and none for a source whose search() returned.
C19_Original ==
    op = "search" =>
        \A n \in SourceNames :
            Count(n, fetch.warnings) = IF n \in Failing THEN 1 ELSE 0

\* C19, amended: in one search, exactly one warning is printed for each call
\* of a source's search() that raised - one per failing source unless the
\* query names the source more than once - and none for a source whose
\* search() returned, a list of zero records included.
C19_OneWarningPerFailedFetch ==
    op = "search" =>
        /\ \A n \in SourceNames :
              Count(n, fetch.warnings) =
                  IF call.outcome[n].raised THEN Count(n, Queried) ELSE 0
        /\ \A i \in 1..Len(fetch.warnings) : fetch.warnings[i] \in SourceNames

\* A search in which one source raised and the other returned zero records
\* printed one warning, for the source that raised.
C19_Witness ==
    /\ op = "search"
    /\ Cardinality(Failing) = 1
    /\ \E n \in NotFailing : call.outcome[n].records = <<>>
    /\ Len(fetch.warnings) = 1
    /\ fetch.warnings[1] \in Failing

(***************************************************************************)
(* The fuzzy similarity on its own: fuzz.ratio and fuzz.partial_ratio      *)
(* applied to a pair of strings and to the swapped pair.                   *)
(***************************************************************************)
\* Lower-case strings as the scorers pass them: states, counties, cities,
\* race labels and marks.
FuzzStrings ==
    {<<>>, <<"c","a">>, <<"c","o">>, <<"o","r">>,
     <<"k","e","r","n">>, <<"k","e","r","n","s">>,
     <<"o","r","a","n","g","e">>, <<"m","a","r","i","o","n">>,
     <<"m","o","r","r","o","w">>, <<"t","a","f","t">>,
     <<"t","a","t","t","o","o">>, <<"t","a","t","o","o">>,
     <<"s","c","a","r">>, <<"a","s","i","a","n">>, <<"w","h","i","t","e">>,
     lower(RaceValue("NATIVE_AMERICAN")), lower(RaceValue("BLACK_AFRICAN_AMERICAN"))}

FuzzCall(matcher, s1, s2) == [matcher |-> matcher, s1 |-> s1, s2 |-> s2]

\* The similarity of (s1, s2) and of (s2, s1).
FuzzReturned(forward, swapped) == [forward |-> forward, swapped |-> swapped]

FuzzInit ==
    /\ min_confidence_threshold = InitThreshold
    /\ databases = InitDatabases
    /\ threshold_set = FALSE
    /\ op = "idle"
    /\ \E matcher \in SequenceMatchers, s1 \in FuzzStrings, s2 \in FuzzStrings :
           call = FuzzCall(matcher, s1, s2)
    /\ fetch = NoFetch
    /\ scored = <<>>
    /\ survivors = <<>>
    /\ ret = Returned(<<>>, <<>>)

\* fuzz.ratio(s1, s2) and fuzz.ratio(s2, s1)
FuzzRatio ==
    /\ op = "idle"
    /\ op' = "fuzz.ratio"
    /\ ret' = FuzzReturned(fuzz_ratio(call.matcher, call.s1, call.s2),
                           fuzz_ratio(call.matcher, call.s2, call.s1))
    /\ UNCHANGED <<min_confidence_threshold, databases, threshold_set, call,
                   fetch, scored, survivors>>

\* fuzz.partial_ratio(s1, s2) and fuzz.partial_ratio(s2, s1)
FuzzPartialRatio ==
    /\ op = "idle"
    /\ op' = "fuzz.partial_ratio"
    /\ ret' = FuzzReturned(fuzz_partial_ratio(call.matcher, call.s1, call.s2),
                           fuzz_partial_ratio(call.matcher, call.s2, call.s1))
    /\ UNCHANGED <<min_confidence_threshold, databases, threshold_set, call,
                   fetch, scored, survivors>>

FuzzNext ==
    \/ FuzzRatio
    \/ FuzzPartialRatio

FuzzSpec == FuzzInit /\ [][FuzzNext]_vars

\* The records of all sources.
InputRecords == UNION {Pool(n) : n \in SourceNames}

\* The two SequenceMatchers give the same fuzz.ratio(a, b) when the scorers
\* compare a and b, which they do when both are present.
AgreeOn(present, a, b) == present => fuzz_ratio("difflib", a, b) = ratio(a, b)

\* On every pair of strings the scorers compare for the queries and records
\* of the engine's inputs, query value first, the two SequenceMatchers give
\* the same similarity.
MatchersAgreeOnInputs ==
    \A q \in Queries, r \in InputRecords :
        /\ AgreeOn(q.pc.race # "None" /\ r.physical_characteristics.race # "None",
                   lower(RaceValue(q.pc.race)),
                   lower(RaceValue(r.physical_characteristics.race)))
        /\ AgreeOn(q.loc.state # <<>> /\ r.location_found.state # <<>>,
                   lower(q.loc.state), lower(r.location_found.state))
        /\ AgreeOn(q.loc.county # <<>> /\ r.location_found.county # <<>>,
                   lower(q.loc.county), lower(r.location_found.county))
        /\ AgreeOn(q.loc.city # <<>> /\ r.location_found.city # <<>>,
                   lower(q.loc.city), lower(r.location_found.city))
        /\ \A i \in 1..Len(q.pc.distinguishing_marks) :
           \A j \in 1..Len(r.physical_characteristics.distinguishing_marks) :
               fuzz_partial_ratio("difflib", lower(q.pc.distinguishing_marks[i]),
                   lower(r.physical_characteristics.distinguishing_marks[j]))
               = partial_ratio(lower(q.pc.distinguishing_marks[i]),
                   lower(r.physical_characteristics.distinguishing_marks[j]))

\* C20 as stated: the similarity used by the fuzzy scorers is symmetric, i.e.
\* fuzz.ratio and fuzz.partial_ratio return the same value for (a, b) and for
\* (b, a), for all strings a and b.
C20_Original ==
    op \in {"fuzz.ratio", "fuzz.partial_ratio"} => ret.forward = ret.swapped

\* Where C20 does hold: fuzz.ratio on the StringMatcher of python-Levenshtein.
C20_SymmetricOnStringMatcher ==
    (op = "fuzz.ratio" /\ call.matcher = "StringMatcher")
        => ret.forward = ret.swapped

\* C20 fails for fuzz.ratio on difflib.
C20_AsymmetricRatio ==
    /\ op = "fuzz.ratio"
    /\ call.matcher = "difflib"
    /\ ret.forward # ret.swapped

\* C20 fails on two race labels of the Race enumeration: 0.54 against 0.59.
C20_AsymmetricRace ==
    /\ op = "fuzz.ratio"
    /\ call = FuzzCall("difflib", lower(RaceValue("NATIVE_AMERICAN")),
                       lower(RaceValue("BLACK_AFRICAN_AMERICAN")))
    /\ ret = FuzzReturned(54, 59)

\* C20 fails for fuzz.partial_ratio on difflib, on strings of one length.
C20_AsymmetricPartialRatio ==
    /\ op = "fuzz.partial_ratio"
    /\ call.matcher = "difflib"
    /\ Len(call.s1) = Len(call.s2)
    /\ ret.forward # ret.swapped

(***************************************************************************)
(* The representative value on its own: _get_height_value,                 *)
(* _get_weight_value and _get_age_value applied to a pair of bounds.       *)
(***************************************************************************)
\* Bounds of a record's range: absent, and values at the ends and inside the
\* domains the validators accept (height 36..96, weight 50..500, age 0..120).
BoundInputs == {None, 0, 1, 36, 50, 96, 120}

HeightDomain == {b \in BoundInputs : b = None \/ (36 <= b /\ b <= 96)}

WeightDomain == {b \in BoundInputs : b = None \/ (50 <= b /\ b <= 500)}

AgeDomain == {b \in BoundInputs : b = None \/ (0 <= b /\ b <= 120)}

ValueCall(lo, hi) == [lo |-> lo, hi |-> hi]

\* The value returned, doubled.
ValueReturned(value2) == [value2 |-> value2]

ValueInit ==
    /\ min_confidence_threshold = InitThreshold
    /\ databases = InitDatabases
    /\ threshold_set = FALSE
    /\ op = "idle"
    /\ \E lo \in BoundInputs, hi \in BoundInputs : call = ValueCall(lo, hi)
    /\ fetch = NoFetch
    /\ scored = <<>>
    /\ survivors = <<>>
    /\ ret = Returned(<<>>, <<>>)

\* A call of one of the three functions on bounds of its domain.
ValueApplied(name, domain) ==
    /\ op = "idle"
    /\ call.lo \in domain
    /\ call.hi \in domain
    /\ op' = name
    /\ ret' = ValueReturned(GetValue2(call.lo, call.hi))
    /\ UNCHANGED <<min_confidence_threshold, databases, threshold_set, call,
                   fetch, scored, survivors>>

GetHeightValue == ValueApplied("_get_height_value", HeightDomain)

GetWeightValue == ValueApplied("_get_weight_value", WeightDomain)

GetAgeValue == ValueApplied("_get_age_value", AgeDomain)

ValueNext ==
    \/ GetHeightValue
    \/ GetWeightValue
    \/ GetAgeValue

ValueSpec == ValueInit /\ [][ValueNext]_vars

IsValueOp == op \in {"_get_height_value", "_get_weight_value", "_get_age_value"}

\* The representative value as the claim gives it, doubled: the mean of the
\* two bounds when both are present, else the bound that is present.
MeanOrPresent2(lo, hi) ==
    IF lo # None /\ hi # None THEN lo + hi
    ELSE IF lo # None THEN 2 * lo
    ELSE IF hi # None THEN 2 * hi
    ELSE None

\* C21 as stated: the representative value of a record's range is the
\* arithmetic mean of min and max when both bounds are present and the single
\* present bound otherwise, for every pair of bounds of the attribute's
\* domain, a bound of 0 included.
C21_Original ==
    IsValueOp => ret.value2 = MeanOrPresent2(call.lo, call.hi)

\* C21 holds for every pair of bounds of which none is 0.
C21_HoldsWithoutZero ==
    (IsValueOp /\ call.lo # 0 /\ call.hi # 0)
        => ret.value2 = MeanOrPresent2(call.lo, call.hi)

\* C21 fails: ages 0 to 36 have the representative value 36, not 18.
C21_ZeroMinIgnored ==
    /\ op = "_get_age_value"
    /\ call = ValueCall(0, 36)
    /\ ret = ValueReturned(2 * 36)

\* C21 fails: a lower bound of 0 alone has no representative value.
C21_ZeroAloneIsAbsent ==
    /\ op = "_get_age_value"
    /\ call = ValueCall(0, None)
    /\ ret = ValueReturned(None)

(***************************************************************************)
(* C22: absent categorical attributes and unequal sexes are left out.      *)
(***************************************************************************)
WithoutSex(criteria) == [criteria EXCEPT !.physical_characteristics.sex = "None"]

WithoutRace(criteria) == [criteria EXCEPT !.physical_characteristics.race = "None"]

HasReason(reasons, texts) == \E i \in 1..Len(reasons) : reasons[i].text \in texts

\* Sex does not count between the record and the query: it is absent on one
\* side, or the two values differ.
SexDoesNotCount(record, criteria) ==
    \/ criteria.physical_characteristics.sex = "None"
    \/ record.physical_characteristics.sex = "None"
    \/ criteria.physical_characteristics.sex # record.physical_characteristics.sex

RaceAbsent(record, criteria) ==
    \/ criteria.physical_characteristics.race = "None"
    \/ record.physical_characteristics.race = "None"

\* m, the result of scoring record against the query, has the category in
\* neither sum and no reason of it, and has the confidence of other, the
\* result of scoring record against the query without the attribute.
C22_LeftOut(m, S, category, texts, other) ==
    /\ category \notin DOMAIN S
    /\ ~HasReason(m.match_reasons, texts)
    /\ m = other

C22_SexLeftOut(m, record, criteria) ==
    SexDoesNotCount(record, criteria)
        => C22_LeftOut(m, CategoryScores(record, criteria), "sex",
                       {"Exact sex match"},
                       calculate_match_score(record, WithoutSex(criteria)))

C22_RaceLeftOut(m, record, criteria) ==
    RaceAbsent(record, criteria)
        => C22_LeftOut(m, CategoryScores(record, criteria), "race",
                       {"Exact race match", "Similar race match"},
                       calculate_match_score(record, WithoutRace(criteria)))

\* C22: a sex or race that is absent in the query or in the record, and a
\* sex that is present in both and unequal, is not among the scored
\* categories (so in neither the weighted sum nor the sum of used weights),
\* gives no reason, and leaves the confidence what it is for the query
\* without that attribute.
C22_AbsentOrUnequalExcluded ==
    IsSearchOp =>
        \A k \in 1..Len(scored) :
            /\ C22_SexLeftOut(scored[k], fetch.all_records[k], call.criteria)
            /\ C22_RaceLeftOut(scored[k], fetch.all_records[k], call.criteria)

\* A record whose sex differs from the query's, one whose sex is absent and
\* one whose race is absent while the query gives one are scored, the first
\* with a positive confidence.
C22_Witness ==
    /\ op = "search"
    /\ \E k \in 1..Len(scored) :
        /\ call.criteria.physical_characteristics.sex = "MALE"
        /\ fetch.all_records[k].physical_characteristics.sex = "FEMALE"
        /\ call.criteria.physical_characteristics.race # "None"
        /\ scored[k].final_score.n > 0
    /\ \E k \in 1..Len(scored) :
        /\ fetch.all_records[k].physical_characteristics.race = "None"
        /\ fetch.all_records[k].physical_characteristics.sex # "None"
        /\ scored[k].final_score.n > 0

\* A record without a sex is scored against a query that gives one.
C22_WitnessAbsentSex ==
    /\ op = "search"
    /\ call.criteria.physical_characteristics.sex # "None"
    /\ \E k \in 1..Len(scored) :
        fetch.all_records[k].physical_characteristics.sex = "None"

(***************************************************************************)
(* C23: the reasons follow the order of evaluation, one per category.      *)
(***************************************************************************)
\* The position in the order of evaluation of the attribute a reason is about.
ReasonRank(text) ==
    CASE text = "Height match" -> 1
      [] text = "Weight match" -> 2
      [] text \in {"Exact race match", "Similar race match"} -> 3
      [] text = "Exact sex match" -> 4
      [] text = "Age match" -> 5
      [] text = "Distinguishing marks match" -> 6
      [] text \in {"Exact state match", "Similar state match"} -> 7
      [] text = "County match" -> 8
      [] text = "City match" -> 9
      [] OTHER -> 0

\* The category a rank belongs to; the three location sub-fields belong to
\* the one category location.
RankCategory(rank) ==
    CASE rank = 1 -> "height"
      [] rank = 2 -> "weight"
      [] rank = 3 -> "race"
      [] rank = 4 -> "sex"
      [] rank = 5 -> "age"
      [] rank = 6 -> "distinguishing_marks"
      [] OTHER -> "location"

\* The reasons are about known attributes, in strictly increasing order of
\* evaluation: in order, and no two for one category or sub-field.
InEvaluationOrder(reasons) ==
    /\ \A i \in 1..Len(reasons) : ReasonRank(reasons[i].text) > 0
    /\ \A i \in 1..(Len(reasons) - 1) :
           ReasonRank(reasons[i].text) < ReasonRank(reasons[i + 1].text)

\* The categories the reasons are about.
ReasonCategories(reasons) ==
    {RankCategory(ReasonRank(reasons[i].text)) : i \in 1..Len(reasons)}

\* The categories of S that calculate_match_score includes in its sums.
Included(S) == {c \in DOMAIN S : S[c] > 0}

C23_Ordered(m, S) ==
    /\ InEvaluationOrder(m.match_reasons)
    /\ ReasonCategories(m.match_reasons) = Included(S)

\* C23: the reasons of a match are in the order height, weight, race, sex,
\* age, distinguishing marks, state, county, city, with at most one reason
\* per physical category and per location sub-field, and a category has a
\* reason exactly when it is included in the aggregation.
C23_ReasonsInEvaluationOrder ==
    IsSearchOp =>
        \A k \in 1..Len(scored) :
            C23_Ordered(scored[k], CategoryScores(fetch.all_records[k], call.criteria))

\* A record scored with reasons for physical categories and for two location
\* sub-fields, and in the same call or another, a record with none.
C23_Witness ==
    /\ op = "search"
    /\ \E k \in 1..Len(scored) :
        /\ Len(scored[k].match_reasons) >= 4
        /\ HasReason(scored[k].match_reasons, {"Height match"})
        /\ HasReason(scored[k].match_reasons, {"Exact state match"})
        /\ HasReason(scored[k].match_reasons, {"County match", "City match"})

(***************************************************************************)
(* C24: only set_confidence_threshold changes the state of the engine.     *)
(***************************************************************************)
\* The records the sources named returned, as they returned them.
RECURSIVE RecordsOf(_, _)
RecordsOf(names, outcome) ==
    IF names = <<>> THEN <<>>
    ELSE (IF outcome[Head(names)].raised THEN <<>>
          ELSE outcome[Head(names)].records) \o RecordsOf(Tail(names), outcome)

\* The arrival positions of the records of m, a list of what
\* calculate_match_score returned, whose confidence is not below threshold.
PassingAt(m, threshold) ==
    {k \in 1..Len(m) : ConfGEThreshold(m[k].final_score, threshold)}

ArrivalsOf(results) == {results[i].arrival : i \in 1..Len(results)}

\* A search that returned with records all_records, results m of the scorer
\* and kept results kept used the threshold that was in force before it and
\* the query and the records as they were given to it.
C24_Untouched(threshold, criteria, delivered, all_records, m, kept) ==
    /\ all_records = delivered
    /\ Len(m) = Len(all_records)
    /\ \A k \in 1..Len(m) : m[k] = calculate_match_score(delivered[k], criteria)
    /\ ArrivalsOf(kept) = PassingAt(m, threshold)
    /\ \A i \in 1..Len(kept) : kept[i].person_record = delivered[kept[i].arrival]

\* C24: a step of search, search_database or get_available_databases leaves
\* the threshold and the source registry as they were, and a search that
\* returns has filtered by the threshold in force before it, the one the
\* setter last set (0.3 if it never was called), and has scored and returned
\* the records as the sources delivered them against the query as given.
C24_OnlySetterChangesState ==
    [][/\ op' # "set_confidence_threshold"
            => /\ min_confidence_threshold' = min_confidence_threshold
               /\ databases' = databases
               /\ threshold_set' = threshold_set
       /\ (op' \in {"search", "search_database"} /\ ret'.raised = "None")
            => C24_Untouched(min_confidence_threshold, call'.criteria,
                             RecordsOf(fetch'.fetched, call'.outcome),
                             fetch'.all_records, scored', survivors')]_vars

\* A search under a threshold the setter set: it kept one record and dropped
\* another that the initial threshold would have kept.
C24_Witness ==
    /\ op = "search"
    /\ threshold_set
    /\ min_confidence_threshold > InitThreshold
    /\ Len(survivors) >= 1
    /\ PassingAt(scored, InitThreshold) # PassingAt(scored, min_confidence_threshold)

(***************************************************************************)
(* C25: the score of a record does not depend on the rest of the batch.    *)
(***************************************************************************)
\* Orders in which a batch of n records can be scored: the reversal, the
\* rotations and the exchanges of two positions (all orders, for n <= 3).
Reverse(n) == [k \in 1..n |-> n + 1 - k]

Rotate(n, r) == [k \in 1..n |-> ((k + r - 1) % n) + 1]

Swap(n, i, j) == [k \in 1..n |-> IF k = i THEN j ELSE IF k = j THEN i ELSE k]

Orders(n) ==
    {Reverse(n)} \cup {Rotate(n, r) : r \in 0..(n - 1)}
                 \cup {Swap(n, i, j) : i \in 1..n, j \in 1..n}

\* What calculate_match_score returns for each record of the batch.
FreshScores(records, criteria) ==
    <<>> \o [k \in 1..Len(records) |-> calculate_match_score(records[k], criteria)]

\* The scoring loop run over the records in the given order, each result
\* keeping the arrival position of its record; fresh[k] is what
\* calculate_match_score returns for records[k].
RECURSIVE ScoreInOrder(_, _, _, _, _, _)
ScoreInOrder(order, i, records, fresh, threshold, acc) ==
    IF i > Len(records) THEN acc
    ELSE ScoreInOrder(order, i + 1, records, fresh, threshold,
                      ScoreStep(acc, records[order[i]], order[i],
                                fresh[order[i]], threshold))

\* Insert r into a list sorted by ascending arrival position.
RECURSIVE InsertByArrival(_, _)
InsertByArrival(sorted, r) ==
    IF sorted = <<>> THEN <<r>>
    ELSE IF Head(sorted).arrival <= r.arrival
         THEN <<Head(sorted)>> \o InsertByArrival(Tail(sorted), r)
         ELSE <<r>> \o sorted

RECURSIVE SortByArrivalFrom(_, _, _)
SortByArrivalFrom(xs, k, sorted) ==
    IF k > Len(xs) THEN sorted
    ELSE SortByArrivalFrom(xs, k + 1, InsertByArrival(sorted, xs[k]))

SortByArrival(xs) == SortByArrivalFrom(xs, 1, <<>>)

\* The loop run in the given order gave every record the result the
\* sequential loop gave it, and its results, put in order of arrival, are
\* the list of the sequential loop.
C25_SameAs(order, loop, m, kept) ==
    /\ \A i \in 1..Len(m) : loop.scored[i] = m[order[i]]
    /\ SortByArrival(loop.search_results) = kept

C25_AnyOrder(records, fresh, threshold, m, kept) ==
    \A order \in Orders(Len(records)) :
        C25_SameAs(order,
                   ScoreInOrder(order, 1, records, fresh, threshold, NoScores),
                   m, kept)

StateInputs == {<<>>, <<"C","A">>, <<"c","a">>, <<"C","O">>, <<"N","Y">>}

CountyInputs == {<<>>, <<"K","e","r","n">>, <<"K","e","r","n","s">>,
                 <<"K","e","n","t">>, <<"K","i","n","g","s">>}

CityInputs == {<<>>, <<"T","a","f","t">>, <<"t","a","f","t","s">>,
               <<"L","a","m","o","n","t">>}

LocationInputs ==
    {Location(state, county, city) :
        state \in StateInputs, county \in CountyInputs, city \in CityInputs}

LocationCall(record_location, criteria_location) ==
    [record_location |-> record_location, criteria_location |-> criteria_location]

LocationInit ==
    /\ min_confidence_threshold = InitThreshold
    /\ databases = InitDatabases
    /\ threshold_set = FALSE
    /\ op = "idle"
    /\ \E record_location \in LocationInputs, criteria_location \in LocationInputs :
           call = LocationCall(record_location, criteria_location)
    /\ fetch = NoFetch
    /\ scored = <<>>
    /\ survivors = <<>>
    /\ ret = Returned(<<>>, <<>>)

\* MatchingEngine._match_location(record_location, criteria_location)
MatchLocation ==
    /\ op = "idle"
    /\ op' = "_match_location"
    /\ ret' = _match_location(call.record_location, call.criteria_location)
    /\ UNCHANGED <<min_confidence_threshold, databases, threshold_set, call,
                   fetch, scored, survivors>>

LocationNext == MatchLocation

LocationSpec == LocationInit /\ [][LocationNext]_vars

\* The similarity ratio of two strings in hundredths, as the scorer takes it.
Similarity(a, b) == ratio(lower(a), lower(b))

\* What the claim lets one sub-field contribute, in units of 1/Scale, as a
\* list of no or one element: nothing when the field is absent on a side;
\* full marks for an equal state; else factor * r when r is above the cut.
C26_Contribution(a, b, exact, factor, cut) ==
    IF a = <<>> \/ b = <<>> THEN <<>>
    ELSE IF exact THEN <<Scale>>
    ELSE IF Similarity(a, b) > cut THEN <<Similarity(a, b) * factor>>
    ELSE <<>>

C26_State(rl, cl) ==
    C26_Contribution(cl.state, rl.state, upper(cl.state) = upper(rl.state),
                     Scale \div 100, 30)

C26_County(rl, cl) ==
    C26_Contribution(cl.county, rl.county, FALSE, (7 * Scale) \div 1000, 70)

C26_City(rl, cl) ==
    C26_Contribution(cl.city, rl.city, FALSE, (5 * Scale) \div 1000, 70)

\* score is the mean of the contributions, 0 when there is none, and there
\* are as many reasons as contributions.
C26_IsMean(included, score, reasons) ==
    /\ Len(reasons) = Len(included)
    /\ IF included = <<>> THEN score = 0
       ELSE score * Len(included) = SumSeq(included)

\* C26: the location score is the arithmetic mean of the included
\* sub-matches: the state with 1.0 when equal without regard to case, else
\* with its ratio r if r > 0.3; the county with 0.7 * r if r > 0.7; the city
\* with 0.5 * r if r > 0.7; a sub-field absent on a side is not included,
\* and with nothing included there is no score and no reason.
C26_LocationIsMean ==
    op = "_match_location" =>
        C26_IsMean(C26_State(call.record_location, call.criteria_location)
                       \o C26_County(call.record_location, call.criteria_location)
                       \o C26_City(call.record_location, call.criteria_location),
                   ret.score, ret.reasons)

\* A state that is similar only (r = 0.5), a county above its cut and a city
\* at or below it: two sub-matches included, one not.
C26_Witness ==
    /\ op = "_match_location"
    /\ call.criteria_location = Location(<<"C","A">>, <<"K","e","r","n">>, <<"T","a","f","t">>)
    /\ call.record_location = Location(<<"C","O">>, <<"K","e","r","n","s">>, <<"L","a","m","o","n","t">>)
    /\ Len(ret.reasons) = 2
    /\ 2 * ret.score = 50 * (Scale \div 100) + 89 * ((7 * Scale) \div 1000)

\* Both locations are given in full and nothing is included.
C26_WitnessNothingIncluded ==
    /\ op = "_match_location"
    /\ call.criteria_location = Location(<<"C","A">>, <<"K","e","r","n">>, <<"T","a","f","t">>)
    /\ call.record_location = Location(<<"N","Y">>, <<"K","i","n","g","s">>, <<"L","a","m","o","n","t">>)
    /\ ret.score = 0
    /\ ret.reasons = <<>>

(***************************************************************************)
(* C27: search fetches from available sources only, as the query names     *)
(* them.                                                                   *)
(***************************************************************************)
\* is_available() of the source named n was true in the last call; a name
\* that is not registered has no source.
AvailableInCall(n) == n \in SourceNames /\ InSeq(n, databases) /\ call.available[n]

\* The names of the query whose source was available, once per occurrence
\* and in the query's order.
NamedAndAvailable ==
    SelectSeq(call.criteria.databases, LAMBDA n : AvailableInCall(n))

\* C27: search fetches from no source whose is_available() was false in the
\* same call; when the query names sources of which one at least is
\* available, it fetches from the named sources that are available, once per
\* occurrence in the query's list and in its order, and from no other.
C27_FetchesNamedAndAvailable ==
    op = "search" =>
        /\ \A k \in 1..Len(fetch.fetched) : AvailableInCall(fetch.fetched[k])
        /\ NamedAndAvailable # <<>> => fetch.fetched = NamedAndAvailable

\* The query named DoeNetwork before NamUs, both available: fetched in the
\* query's order, which is not the order of the registry.
C27_Witness ==
    /\ op = "search"
    /\ call.criteria.databases = <<"DoeNetwork", "NamUs">>
    /\ call.available["NamUs"]
    /\ call.available["DoeNetwork"]
    /\ fetch.fetched = <<"DoeNetwork", "NamUs">>
    /\ databases = <<"NamUs", "DoeNetwork">>

\* The query named NamUs twice while DoeNetwork was available too: NamUs was
\* fetched twice and DoeNetwork not at all.
C27_WitnessTwice ==
    /\ op = "search"
    /\ call.criteria.databases = <<"NamUs", "NamUs">>
    /\ call.available["DoeNetwork"]
    /\ fetch.fetched = <<"NamUs", "NamUs">>

\* The query named the available NamUs and the unregistered MockDB while
\* DoeNetwork was unavailable: only NamUs was fetched.
C27_WitnessUnavailable ==
    /\ op = "search"
    /\ call.criteria.databases = <<"MockDB", "NamUs">>
    /\ ~call.available["DoeNetwork"]
    /\ fetch.fetched = <<"NamUs">>

(***************************************************************************)
(* C28: a match has reasons exactly when its confidence is positive.       *)
(***************************************************************************)
\* C28: calculate_match_score returns a non-empty list of reasons exactly
\* when the confidence it returns is greater than 0; so under a threshold
\* greater than 0 every result search returns has a reason.
C28_ReasonsIffPositive ==
    IsSearchOp =>
        /\ \A k \in 1..Len(scored) :
               scored[k].match_reasons # <<>> <=> scored[k].final_score.n > 0
        /\ min_confidence_threshold > 0 =>
               \A i \in 1..Len(ret.results) : ret.results[i].match_reasons # <<>>

\* Under the threshold 0.3 a search returned a result, with its reasons, and
\* scored another record with the confidence 0 and no reason.
C28_Witness ==
    /\ op = "search"
    /\ min_confidence_threshold = InitThreshold
    /\ Len(ret.results) >= 1
    /\ ret.results[1].match_reasons # <<>>
    /\ \E k \in 1..Len(scored) :
           scored[k].final_score.n = 0 /\ scored[k].match_reasons = <<>>

(***************************************************************************)
(* C29: the slice keeps the best matches.                                  *)
(***************************************************************************)
\* c1 > c2 on confidences.
ConfGT(c1, c2) == c1.n * c2.d > c2.n * c1.d

\* The results kept by the filter that are not in the returned list.
CutOff == {i \in 1..Len(survivors) : ~Returned_k(survivors[i].arrival)}

\* C29: for a cap that is not negative, search and search_database return
\* min(cap, number of survivors) results, the first ones of the stably
\* sorted list of all survivors, and no survivor left out has a confidence
\* strictly greater than that of a returned result.
C29_TruncationKeepsBest ==
    (IsSearchOp /\ ret.raised = "None" /\ call.max_results >= 0) =>
        /\ Len(ret.results) = Min2(call.max_results, Len(survivors))
        /\ ret.results = SubSeq(SortByConfidence(survivors), 1, Len(ret.results))
        /\ \A i \in CutOff : \A j \in 1..Len(ret.results) :
               ~ConfGT(survivors[i].confidence_score, ret.results[j].confidence_score)

\* With the cap 1 and two survivors, the one that was scored second and has
\* the greater confidence is returned and the first is cut off.
C29_Witness ==
    /\ op = "search"
    /\ call.max_results = 1
    /\ Len(survivors) >= 2
    /\ ConfGT(survivors[2].confidence_score, survivors[1].confidence_score)
    /\ Len(ret.results) = 1
    /\ ret.results[1].arrival = survivors[2].arrival
    /\ 1 \in CutOff

(***************************************************************************)
(* C30: more agreeing location fields can mean a lower location score.     *)
(***************************************************************************)
SameText(a, b) == a # <<>> /\ b # <<>> /\ upper(a) = upper(b)

ASideAbsent(a, b) == a = <<>> \/ b = <<>>

\* The record and the query agree on the state and have no county and no
\* city to compare.
AgreeOnStateOnly(rl, cl) ==
    /\ SameText(cl.state, rl.state)
    /\ ASideAbsent(cl.county, rl.county)
    /\ ASideAbsent(cl.city, rl.city)

AgreeOnAllThree(rl, cl) ==
    /\ SameText(cl.state, rl.state)
    /\ SameText(cl.county, rl.county)
    /\ SameText(cl.city, rl.city)

\* (1.0 + 0.7 + 0.5) / 3, in units of 1/Scale.
FullLocationScore == (Scale + (7 * Scale) \div 10 + (5 * Scale) \div 10) \div 3

C30_Scores(rl, cl, score) ==
    /\ AgreeOnStateOnly(rl, cl) => score = Scale
    /\ AgreeOnAllThree(rl, cl) => (score = FullLocationScore /\ score < Scale)

\* The query gives a location and nothing else.
LocationOnly(criteria) ==
    criteria.physical_characteristics = NoPC /\ criteria.location # NoLocation

\* In the returned list every record that agrees on the state only is before
\* every record that agrees on all three fields.
C30_StateOnlyFirst(results, cl) ==
    \A i, j \in 1..Len(results) :
        (AgreeOnStateOnly(results[i].person_record.location_found, cl)
         /\ AgreeOnAllThree(results[j].person_record.location_found, cl))
            => (i < j /\ ConfGT(results[i].confidence_score,
                                results[j].confidence_score))

\* C30: a record that agrees with the query on the state only has the
\* location score 1.0 and one that agrees on state, county and city has
\* (1.0 + 0.7 + 0.5) / 3, which is lower; when the query gives a location
\* only, the first is ranked above the second.
C30_NotMonotone ==
    IsSearchOp =>
        /\ \A k \in 1..Len(scored) :
               C30_Scores(fetch.all_records[k].location_found, call.criteria.location,
                          CategoryScores(fetch.all_records[k], call.criteria)["location"])
        /\ LocationOnly(call.criteria)
               => C30_StateOnlyFirst(ret.results, call.criteria.location)

\* A query of a location only fetched the record that agrees on all three
\* fields before the one that agrees on the state only, and returned them
\* the other way round, with the confidences 1.0 and 0.73.
C30_Witness ==
    /\ op = "search"
    /\ LocationOnly(call.criteria)
    /\ fetch.all_records = <<N2, N1>>
    /\ AgreeOnAllThree(N2.location_found, call.criteria.location)
    /\ AgreeOnStateOnly(N1.location_found, call.criteria.location)
    /\ Len(ret.results) = 2
    /\ ret.results[1].person_record = N1
    /\ ret.results[1].confidence_score.n = Scale * ret.results[1].confidence_score.d
    /\ ret.results[2].person_record = N2
    /\ ret.results[2].confidence_score.n
           = FullLocationScore * ret.results[2].confidence_score.d

====
